---- MODULE Spec2Model ----
(***************************************************************************)
(* 75-day challenge: the daily challenge progression engine (the redux     *)
(* slice challengeSlice.ts) and the rep-counting phase state machine (the  *)
(* timer-driven and the frame-driven PoseDetectionService).                *)
(*                                                                         *)
(* Calendar dates are day numbers: new Date().toISOString().split("T")[0]  *)
(* is the UTC calendar date, and two such strings are equal exactly when   *)
(* the day numbers are.  Wall-clock times are milliseconds.                *)
(***************************************************************************)
EXTENDS Integers, FiniteSets, Sequences, TLC

(***************************************************************************)
(* Bounds of the exploration.                                              *)
(***************************************************************************)
\* the calendar dates of a behaviour are drawn from 1..MaxDate and one late date
MaxDate == 2
\* advanceDay is dispatched on the days up to MaxAdvance (and down to -MaxAdvance,
\* where currentDay has fallen below 1) and on the last two
MaxAdvance == 1
\* the second payload of baselines is the default one raised by BaselineBoost
BaselineBoost == 5
\* the actualCount payload
SampleActual == 12
\* the wall clock runs for MaxTicks detection periods
MaxTicks == 16
\* startExercise is called at most MaxStarts times in a behaviour
MaxStarts == 2
\* with two exercise types tracked, the wall clock runs for MaxTicksTwo steps of
\* four detection periods each
MaxTicksTwo == 2
\* the keypoints passed to calculateAngle have coordinates 0..MaxCoord
MaxCoord == 2
\* the targetCount prop of the tracking screen is drawn from 0..MaxTarget
MaxTarget == 3
\* the clock of the tracking screen runs for MaxSeconds seconds
MaxSeconds == 6
\* the tracking screen calls setInterval at most MaxIntervals times
MaxIntervals == 3

(***************************************************************************)
(* Program constants.                                                      *)
(***************************************************************************)
ChallengeDays == 75
PlankStep == 5

NoDate == 0 - 1      \* null (startDate, lastCompletedDate)
NoCount == 0 - 1     \* undefined (actualReps / actualSeconds not set)

ExerciseTypes == {"pushups", "squats", "situps", "planks"}

\* the dates the clock may show; a behaviour visits the dates of one calendar,
\* one date or two, in increasing order
Dates == (1 .. MaxDate) \cup {ChallengeDays + 1}
Calendars == {{a, b} : a \in Dates, b \in Dates}

DefaultBaselines == [pushups |-> 10, squats |-> 15, situps |-> 10, planks |-> 30]

BaselineChoices ==
    { DefaultBaselines,
      [pushups |-> DefaultBaselines.pushups + BaselineBoost,
       squats  |-> DefaultBaselines.squats + BaselineBoost,
       situps  |-> DefaultBaselines.situps + BaselineBoost,
       planks  |-> DefaultBaselines.planks + BaselineBoost] }

ActualCounts == {SampleActual}

VARIABLES
    calendar,     \* the dates of this behaviour
    today,        \* the calendar date new Date() yields
    challenge,    \* the ChallengeState held by the store
    lastAction,   \* the action dispatched last, and what it found
    updatesOn     \* per date: how often the day-completed branch ran since the last start/reset

challengeVars == <<calendar, today, challenge, lastAction, updatesOn>>

(***************************************************************************)
(* challengeSlice.ts                                                       *)
(***************************************************************************)
initialState ==
    [ isActive           |-> FALSE,
      startDate          |-> NoDate,
      currentDay         |-> 1,
      baselines          |-> DefaultBaselines,
      currentStreak      |-> 0,
      bestStreak         |-> 0,
      totalDaysCompleted |-> 0,
      dailyProgress      |-> << >>,
      lastCompletedDate  |-> NoDate,
      challengeCompleted |-> FALSE ]

\* createDailyProgress with the planks target raised by 5 per day from day 0
createDailyProgress_planksFromDayZero(date, day, baselines) ==
    [ date |-> date,
      day  |-> day,
      exercises |->
        [ e \in ExerciseTypes |->
            [ target    |-> IF e = "planks"
                            THEN baselines[e] + day * PlankStep
                            ELSE baselines[e] + (day - 1),
              completed |-> FALSE,
              actual    |-> NoCount ] ],
      allCompleted |-> FALSE ]

createDailyProgress(date, day, baselines) ==
    [ date |-> date,
      day  |-> day,
      exercises |->
        [ e \in ExerciseTypes |->
            [ target    |-> IF e = "planks"
                            THEN baselines[e] + (day - 1) * PlankStep
                            ELSE baselines[e] + (day - 1),
              completed |-> FALSE,
              actual    |-> NoCount ] ],
      allCompleted |-> FALSE ]

HasProgress(state, date) == date \in DOMAIN state.dailyProgress

\* state.dailyProgress[date] = rec
SetProgress(state, date, rec) ==
    [state EXCEPT !.dailyProgress =
        [d \in (DOMAIN state.dailyProgress) \cup {date} |->
            IF d = date THEN rec ELSE state.dailyProgress[d]]]

\* yesterday.setDate(yesterday.getDate() - 1), as a calendar date
Yesterday(now) == now - 1

\* startChallenge without the assignment state.dailyProgress = {}
startChallenge_keepsProgress(state, now, payload) ==
    LET s == [ isActive           |-> TRUE,
               startDate          |-> now,
               currentDay         |-> 1,
               baselines          |-> payload,
               currentStreak      |-> 0,
               bestStreak         |-> 0,
               totalDaysCompleted |-> 0,
               dailyProgress      |-> state.dailyProgress,
               lastCompletedDate  |-> NoDate,
               challengeCompleted |-> FALSE ]
    IN SetProgress(s, now, createDailyProgress(now, 1, s.baselines))

startChallenge(state, now, payload) ==
    LET s == [ isActive           |-> TRUE,
               startDate          |-> now,
               currentDay         |-> 1,
               baselines          |-> payload,
               currentStreak      |-> 0,
               bestStreak         |-> 0,
               totalDaysCompleted |-> 0,
               dailyProgress      |-> << >>,
               lastCompletedDate  |-> NoDate,
               challengeCompleted |-> FALSE ]
    IN SetProgress(s, now, createDailyProgress(now, 1, s.baselines))

\* DayCompleted without the assignment to lastCompletedDate
DayCompleted_noStamp(state, now) ==
    LET s1 == [state EXCEPT !.totalDaysCompleted = @ + 1]
        yesterdayStr == Yesterday(now)
        s2 == IF s1.lastCompletedDate = yesterdayStr \/ s1.currentStreak = 0
              THEN [s1 EXCEPT !.currentStreak = @ + 1]
              ELSE [s1 EXCEPT !.currentStreak = 1]
        s3 == IF s2.currentStreak > s2.bestStreak
              THEN [s2 EXCEPT !.bestStreak = s2.currentStreak]
              ELSE s2
    IN IF s3.currentDay >= ChallengeDays
       THEN [s3 EXCEPT !.challengeCompleted = TRUE]
       ELSE s3

\* DayCompleted without the update of bestStreak
DayCompleted_noBest(state, now) ==
    LET s1 == [state EXCEPT !.lastCompletedDate = now,
                            !.totalDaysCompleted = @ + 1]
        yesterdayStr == Yesterday(now)
        s2 == IF s1.lastCompletedDate = yesterdayStr \/ s1.currentStreak = 0
              THEN [s1 EXCEPT !.currentStreak = @ + 1]
              ELSE [s1 EXCEPT !.currentStreak = 1]
    IN IF s2.currentDay >= ChallengeDays
       THEN [s2 EXCEPT !.challengeCompleted = TRUE]
       ELSE s2

\* DayCompleted with the streak continued on every completion
DayCompleted_alwaysContinues(state, now) ==
    LET s1 == [state EXCEPT !.lastCompletedDate = now,
                            !.totalDaysCompleted = @ + 1]
        s2 == [s1 EXCEPT !.currentStreak = @ + 1]
        s3 == IF s2.currentStreak > s2.bestStreak
              THEN [s2 EXCEPT !.bestStreak = s2.currentStreak]
              ELSE s2
    IN IF s3.currentDay >= ChallengeDays
       THEN [s3 EXCEPT !.challengeCompleted = TRUE]
       ELSE s3

\* the branch "Day completed for the first time" of completeExercise
DayCompleted(state, now) ==
    LET s1 == [state EXCEPT !.lastCompletedDate = now,
                            !.totalDaysCompleted = @ + 1]
        yesterdayStr == Yesterday(now)
        s2 == IF s1.lastCompletedDate = yesterdayStr \/ s1.currentStreak = 0
              THEN [s1 EXCEPT !.currentStreak = @ + 1]
              ELSE [s1 EXCEPT !.currentStreak = 1]
        s3 == IF s2.currentStreak > s2.bestStreak
              THEN [s2 EXCEPT !.bestStreak = s2.currentStreak]
              ELSE s2
    IN IF s3.currentDay >= ChallengeDays
       THEN [s3 EXCEPT !.challengeCompleted = TRUE]
       ELSE s3

\* the guard without the comparison with lastCompletedDate
FirstCompletion_noDateGuard(state, now, allCompleted) ==
    allCompleted

\* the guard of that branch
FirstCompletion(state, now, allCompleted) ==
    allCompleted /\ state.lastCompletedDate # now

\* completeExercise with allCompleted set as soon as one exercise is completed
completeExercise_someCompleted(state, now, exerciseType, actualCount) ==
    LET s1 == IF ~HasProgress(state, now)
              THEN SetProgress(state, now,
                       createDailyProgress(now, state.currentDay, state.baselines))
              ELSE state
        marked == [s1.dailyProgress[now] EXCEPT
                      !.exercises[exerciseType].completed = TRUE,
                      !.exercises[exerciseType].actual = actualCount]
        allCompleted == \E e \in ExerciseTypes : marked.exercises[e].completed
        s2 == SetProgress(s1, now, [marked EXCEPT !.allCompleted = allCompleted])
    IN IF FirstCompletion(s2, now, allCompleted)
       THEN DayCompleted(s2, now)
       ELSE s2

\* completeExercise creating a missing record as the record of day 1
completeExercise_recordOfDayOne(state, now, exerciseType, actualCount) ==
    LET s1 == IF ~HasProgress(state, now)
              THEN SetProgress(state, now,
                       createDailyProgress(now, 1, state.baselines))
              ELSE state
        marked == [s1.dailyProgress[now] EXCEPT
                      !.exercises[exerciseType].completed = TRUE,
                      !.exercises[exerciseType].actual = actualCount]
        allCompleted == \A e \in ExerciseTypes : marked.exercises[e].completed
        s2 == SetProgress(s1, now, [marked EXCEPT !.allCompleted = allCompleted])
    IN IF FirstCompletion(s2, now, allCompleted)
       THEN DayCompleted(s2, now)
       ELSE s2

completeExercise(state, now, exerciseType, actualCount) ==
    LET s1 == IF ~HasProgress(state, now)
              THEN SetProgress(state, now,
                       createDailyProgress(now, state.currentDay, state.baselines))
              ELSE state
        marked == [s1.dailyProgress[now] EXCEPT
                      !.exercises[exerciseType].completed = TRUE,
                      !.exercises[exerciseType].actual = actualCount]
        allCompleted == \A e \in ExerciseTypes : marked.exercises[e].completed
        s2 == SetProgress(s1, now, [marked EXCEPT !.allCompleted = allCompleted])
    IN IF FirstCompletion(s2, now, allCompleted)
       THEN DayCompleted(s2, now)
       ELSE s2

\* advanceDay creating the record from the day it leaves
advanceDay_recordOfOldDay(state, now) ==
    IF state.currentDay < ChallengeDays
    THEN LET s1 == [state EXCEPT !.currentDay = @ + 1]
         IN SetProgress(s1, now, createDailyProgress(now, state.currentDay, s1.baselines))
    ELSE state

advanceDay(state, now) ==
    IF state.currentDay < ChallengeDays
    THEN LET s1 == [state EXCEPT !.currentDay = @ + 1]
         IN SetProgress(s1, now, createDailyProgress(now, s1.currentDay, s1.baselines))
    ELSE state

resetChallenge(state) == initialState

\* updateBaselines regenerating today's record whether the challenge is active or not
updateBaselines_inactiveToo(state, now, payload) ==
    LET s1 == [state EXCEPT !.baselines = payload]
    IN IF HasProgress(s1, now)
       THEN SetProgress(s1, now, createDailyProgress(now, s1.currentDay, s1.baselines))
       ELSE s1

updateBaselines(state, now, payload) ==
    LET s1 == [state EXCEPT !.baselines = payload]
    IN IF s1.isActive /\ HasProgress(s1, now)
       THEN SetProgress(s1, now, createDailyProgress(now, s1.currentDay, s1.baselines))
       ELSE s1

Min(a, b) == IF a < b THEN a ELSE b

\* syncCurrentDay that also flags the challenge completed on reaching the last day
syncCurrentDay_marksCompleted(state, now) ==
    IF state.startDate = NoDate \/ ~state.isActive
    THEN state
    ELSE LET diffDays == (now - state.startDate) + 1
             s1 == [state EXCEPT !.currentDay = Min(diffDays, ChallengeDays),
                                 !.challengeCompleted =
                                     @ \/ Min(diffDays, ChallengeDays) >= ChallengeDays]
         IN IF ~HasProgress(s1, now)
            THEN SetProgress(s1, now,
                     createDailyProgress(now, s1.currentDay, s1.baselines))
            ELSE s1

\* syncCurrentDay creating today's record whether there is one or not
syncCurrentDay_overwrites(state, now) ==
    IF state.startDate = NoDate \/ ~state.isActive
    THEN state
    ELSE LET diffDays == (now - state.startDate) + 1
             s1 == [state EXCEPT !.currentDay = Min(diffDays, ChallengeDays)]
         IN SetProgress(s1, now,
                createDailyProgress(now, s1.currentDay, s1.baselines))

syncCurrentDay(state, now) ==
    IF state.startDate = NoDate \/ ~state.isActive
    THEN state
    ELSE LET diffDays == (now - state.startDate) + 1
             s1 == [state EXCEPT !.currentDay = Min(diffDays, ChallengeDays)]
         IN IF ~HasProgress(s1, now)
            THEN SetProgress(s1, now,
                     createDailyProgress(now, s1.currentDay, s1.baselines))
            ELSE s1

(***************************************************************************)
(* The store: one dispatched action per step.                              *)
(***************************************************************************)
TodayAllCompleted(state, now) ==
    HasProgress(state, now) /\ state.dailyProgress[now].allCompleted

\* an action without payload
NoPayload == << >>

NoAction ==
    [type |-> "init", payload |-> NoPayload, wasAllCompleted |-> FALSE, wasCounted |-> FALSE]

\* the action dispatched, its payload, whether today's record was allCompleted when
\* it was dispatched, and whether today was the lastCompletedDate then; of
\* completeExercise the payload is kept for the calls that find no record for today
DispatchedWith(type, payload) ==
    [type            |-> type,
     payload         |-> payload,
     wasAllCompleted |-> TodayAllCompleted(challenge, today),
     wasCounted      |-> challenge.lastCompletedDate = today]

Dispatched(type) == DispatchedWith(type, NoPayload)

NoUpdates == [d \in Dates |-> 0]

StartChallenge ==
    \E b \in BaselineChoices :
        /\ challenge' = startChallenge(challenge, today, b)
        /\ lastAction' = DispatchedWith("startChallenge", b)
        /\ updatesOn' = NoUpdates
        /\ UNCHANGED <<calendar, today>>

CompleteExercise ==
    \E e \in ExerciseTypes, a \in ActualCounts :
        /\ challenge' = completeExercise(challenge, today, e, a)
        /\ lastAction' =
              DispatchedWith("completeExercise",
                             IF HasProgress(challenge, today)
                             THEN NoPayload
                             ELSE [exerciseType |-> e, actualCount |-> a])
        /\ updatesOn' =
              IF \/ challenge'.totalDaysCompleted # challenge.totalDaysCompleted
                 \/ challenge'.currentStreak # challenge.currentStreak
              THEN [updatesOn EXCEPT ![today] = @ + 1]
              ELSE updatesOn
        /\ UNCHANGED <<calendar, today>>

AdvanceDay ==
    /\ \/ challenge.currentDay \in (0 - MaxAdvance) .. MaxAdvance
       \/ challenge.currentDay >= ChallengeDays - 1
    /\ challenge' = advanceDay(challenge, today)
    /\ lastAction' = Dispatched("advanceDay")
    /\ UNCHANGED <<calendar, today, updatesOn>>

\* advanceDay dispatched on any day
AdvanceDayAnyDay ==
    /\ challenge' = advanceDay(challenge, today)
    /\ lastAction' = Dispatched("advanceDay")
    /\ UNCHANGED <<calendar, today, updatesOn>>

ResetChallenge ==
    /\ challenge' = resetChallenge(challenge)
    /\ lastAction' = Dispatched("resetChallenge")
    /\ updatesOn' = NoUpdates
    /\ UNCHANGED <<calendar, today>>

UpdateBaselines ==
    \E b \in BaselineChoices :
        /\ challenge' = updateBaselines(challenge, today, b)
        /\ lastAction' = DispatchedWith("updateBaselines", b)
        /\ UNCHANGED <<calendar, today, updatesOn>>

SyncCurrentDay ==
    /\ challenge' = syncCurrentDay(challenge, today)
    /\ lastAction' = Dispatched("syncCurrentDay")
    /\ UNCHANGED <<calendar, today, updatesOn>>

\* the calendar moves on to a later date
DatePasses ==
    \E d \in calendar :
        /\ d > today
        /\ today' = d
        /\ UNCHANGED <<calendar, challenge, lastAction, updatesOn>>

\* the device clock is set to another date of the calendar, earlier or later; the
\* date it leaves is not shown again
ClockSet ==
    \E d \in calendar :
        /\ d # today
        /\ today' = d
        /\ calendar' = calendar \ {today}
        /\ UNCHANGED <<challenge, lastAction, updatesOn>>

(***************************************************************************)
(* createDailyProgress called on its own, and the onboarding screen's       *)
(* "Your Day 75 Target" preview computed from the baselines being entered. *)
(***************************************************************************)
VARIABLES
    targetDay,        \* the day passed to createDailyProgress
    targetBaselines,  \* the baselines passed to it, and held by the onboarding screen
    created,          \* the DailyProgress it returned, if it was called
    preview           \* the day-75 target the onboarding screen shows per exercise

targetVars == <<targetDay, targetBaselines, created, preview>>

NoProgress == << >>
NoPreview == << >>

\* baselines[currentExercise.key] + 74 * 5 for planks, + 74 otherwise
day75Preview(baselines, key) ==
    IF key = "planks" THEN baselines[key] + 74 * 5 ELSE baselines[key] + 74

CreateDailyProgress ==
    /\ created' = createDailyProgress(today, targetDay, targetBaselines)
    /\ UNCHANGED <<targetDay, targetBaselines, preview>>

PreviewDay75 ==
    /\ preview' = [e \in ExerciseTypes |-> day75Preview(targetBaselines, e)]
    /\ UNCHANGED <<targetDay, targetBaselines, created>>

(***************************************************************************)
(* PoseDetectionService.  Two classes bear the name: the timer-driven one   *)
(* (startExercise creates an interval timer that runs detectExercise) and  *)
(* the frame-driven one (the caller passes each pose to processExercise).  *)
(* Both keep one ExerciseState per exercise type.                          *)
(*                                                                         *)
(* A pose enters the model as the quantity the processor computes from its *)
(* keypoints (avgArmAngle, avgKneeAngle, torsoAngle in degrees,            *)
(* bodyAlignment in pixels) and its confidence, in tenths.                 *)
(***************************************************************************)
VARIABLES
    service,            \* which PoseDetectionService is in use: "timer" or "frames"
    tracked,            \* the exercise types this behaviour starts and stops
    onRepDetected,      \* per type: the callback its latest startExercise was given
    nowMs,              \* Date.now()
    exerciseStates,     \* Map<ExerciseType, ExerciseState>
    timers,             \* the interval timers that are running
    detectionInterval,  \* the handle the service holds
    started,            \* number of startExercise calls so far
    lastEvent,          \* the last call or tick of the service, and what it did
    phaseChangeAt       \* per type: when a frame of the session last changed its phase

poseVars == <<service, tracked, onRepDetected, nowMs, exerciseStates, timers, detectionInterval, started,
              lastEvent, phaseChangeAt>>


\* setInterval(..., 200)
TickMs == 200

NoTimer == 0        \* detectionInterval = null
NoTime == 0 - 1     \* no frame of the session has changed its phase

Confidences == {7, 9}

\* sample values of the quantity computed from the keypoints
Measures(exerciseType) ==
    CASE exerciseType = "pushups" -> {0, 100, 110, 130, 150, 155}
      [] exerciseType = "squats"  -> {0, 100, 120, 140, 160, 170}
      [] exerciseType = "situps"  -> {0, 10, 15, 35, 40, 100}
      [] exerciseType = "planks"  -> {30, 40, 60}

Poses(exerciseType) ==
    [measure : Measures(exerciseType), confidence : Confidences]

Feedback(text, n) == [text |-> text, n |-> n]

\* the ExerciseState startExercise stores
NewExerciseState(now) ==
    [ repCount        |-> 0,
      currentPhase    |-> "neutral",
      lastPhaseChange |-> now,
      isValid         |-> FALSE,
      formFeedback    |-> Feedback("Position yourself and start exercising!", 0) ]

\* processPushups with the debounce test written timeSinceLastChange <= 800
processPushups_debounceInclusive(pose, state, now) ==
    LET avgArmAngle == pose.measure
        timeSinceLastChange == now - state.lastPhaseChange
        isValidForm == pose.confidence > 7 /\ avgArmAngle > 60 /\ avgArmAngle < 180
    IN IF timeSinceLastChange <= 800
       THEN state
       ELSE IF avgArmAngle < 110 /\ state.currentPhase # "down"
       THEN [ repCount        |-> state.repCount,
              currentPhase    |-> "down",
              lastPhaseChange |-> now,
              isValid         |-> isValidForm,
              formFeedback    |-> Feedback("Good! Now push up!", 0) ]
       ELSE IF avgArmAngle > 150 /\ state.currentPhase = "down"
       THEN [ repCount        |-> state.repCount + 1,
              currentPhase    |-> "up",
              lastPhaseChange |-> now,
              isValid         |-> isValidForm,
              formFeedback    |-> Feedback("Perfect push-up #", state.repCount + 1) ]
       ELSE [state EXCEPT !.isValid = isValidForm]

\* processPushups writing a feedback on the frames that change no phase too
processPushups_feedbackEveryFrame(pose, state, now) ==
    LET avgArmAngle == pose.measure
        timeSinceLastChange == now - state.lastPhaseChange
        isValidForm == pose.confidence > 7 /\ avgArmAngle > 60 /\ avgArmAngle < 180
    IN IF timeSinceLastChange < 800
       THEN state
       ELSE IF avgArmAngle < 110 /\ state.currentPhase # "down"
       THEN [ repCount        |-> state.repCount,
              currentPhase    |-> "down",
              lastPhaseChange |-> now,
              isValid         |-> isValidForm,
              formFeedback    |-> Feedback("Good! Now push up!", 0) ]
       ELSE IF avgArmAngle > 150 /\ state.currentPhase = "down"
       THEN [ repCount        |-> state.repCount + 1,
              currentPhase    |-> "up",
              lastPhaseChange |-> now,
              isValid         |-> isValidForm,
              formFeedback    |-> Feedback("Perfect push-up #", state.repCount + 1) ]
       ELSE [state EXCEPT !.isValid = isValidForm,
                          !.formFeedback = Feedback("Keep going!", 0)]

\* processPushups testing the debounce only before it changes to the down phase
processPushups_repUndebounced(pose, state, now) ==
    LET avgArmAngle == pose.measure
        timeSinceLastChange == now - state.lastPhaseChange
        isValidForm == pose.confidence > 7 /\ avgArmAngle > 60 /\ avgArmAngle < 180
    IN IF avgArmAngle > 150 /\ state.currentPhase = "down"
       THEN [ repCount        |-> state.repCount + 1,
              currentPhase    |-> "up",
              lastPhaseChange |-> now,
              isValid         |-> isValidForm,
              formFeedback    |-> Feedback("Perfect push-up #", state.repCount + 1) ]
       ELSE IF timeSinceLastChange < 800
       THEN state
       ELSE IF avgArmAngle < 110 /\ state.currentPhase # "down"
       THEN [ repCount        |-> state.repCount,
              currentPhase    |-> "down",
              lastPhaseChange |-> now,
              isValid         |-> isValidForm,
              formFeedback    |-> Feedback("Good! Now push up!", 0) ]
       ELSE [state EXCEPT !.isValid = isValidForm]

processPushups(pose, state, now) ==
    LET avgArmAngle == pose.measure
        timeSinceLastChange == now - state.lastPhaseChange
        isValidForm == pose.confidence > 7 /\ avgArmAngle > 60 /\ avgArmAngle < 180
    IN IF timeSinceLastChange < 800
       THEN state
       ELSE IF avgArmAngle < 110 /\ state.currentPhase # "down"
       THEN [ repCount        |-> state.repCount,
              currentPhase    |-> "down",
              lastPhaseChange |-> now,
              isValid         |-> isValidForm,
              formFeedback    |-> Feedback("Good! Now push up!", 0) ]
       ELSE IF avgArmAngle > 150 /\ state.currentPhase = "down"
       THEN [ repCount        |-> state.repCount + 1,
              currentPhase    |-> "up",
              lastPhaseChange |-> now,
              isValid         |-> isValidForm,
              formFeedback    |-> Feedback("Perfect push-up #", state.repCount + 1) ]
       ELSE [state EXCEPT !.isValid = isValidForm]

\* processSquats with a debounce interval of 600 ms
processSquats_shortDebounce(pose, state, now) ==
    LET avgKneeAngle == pose.measure
        timeSinceLastChange == now - state.lastPhaseChange
        isValidForm == pose.confidence > 7 /\ avgKneeAngle > 80 /\ avgKneeAngle < 180
    IN IF timeSinceLastChange < 600
       THEN state
       ELSE IF avgKneeAngle < 120 /\ state.currentPhase # "down"
       THEN [ repCount        |-> state.repCount,
              currentPhase    |-> "down",
              lastPhaseChange |-> now,
              isValid         |-> isValidForm,
              formFeedback    |-> Feedback("Great squat! Now stand up!", 0) ]
       ELSE IF avgKneeAngle > 160 /\ state.currentPhase = "down"
       THEN [ repCount        |-> state.repCount + 1,
              currentPhase    |-> "up",
              lastPhaseChange |-> now,
              isValid         |-> isValidForm,
              formFeedback    |-> Feedback("Excellent squat #", state.repCount + 1) ]
       ELSE [state EXCEPT !.isValid = isValidForm]

\* processSquats with the rep count starting over when the down phase is entered
processSquats_resetsOnDown(pose, state, now) ==
    LET avgKneeAngle == pose.measure
        timeSinceLastChange == now - state.lastPhaseChange
        isValidForm == pose.confidence > 7 /\ avgKneeAngle > 80 /\ avgKneeAngle < 180
    IN IF timeSinceLastChange < 1000
       THEN state
       ELSE IF avgKneeAngle < 120 /\ state.currentPhase # "down"
       THEN [ repCount        |-> 0,
              currentPhase    |-> "down",
              lastPhaseChange |-> now,
              isValid         |-> isValidForm,
              formFeedback    |-> Feedback("Great squat! Now stand up!", 0) ]
       ELSE IF avgKneeAngle > 160 /\ state.currentPhase = "down"
       THEN [ repCount        |-> state.repCount + 1,
              currentPhase    |-> "up",
              lastPhaseChange |-> now,
              isValid         |-> isValidForm,
              formFeedback    |-> Feedback("Excellent squat #", state.repCount + 1) ]
       ELSE [state EXCEPT !.isValid = isValidForm]

processSquats(pose, state, now) ==
    LET avgKneeAngle == pose.measure
        timeSinceLastChange == now - state.lastPhaseChange
        isValidForm == pose.confidence > 7 /\ avgKneeAngle > 80 /\ avgKneeAngle < 180
    IN IF timeSinceLastChange < 1000
       THEN state
       ELSE IF avgKneeAngle < 120 /\ state.currentPhase # "down"
       THEN [ repCount        |-> state.repCount,
              currentPhase    |-> "down",
              lastPhaseChange |-> now,
              isValid         |-> isValidForm,
              formFeedback    |-> Feedback("Great squat! Now stand up!", 0) ]
       ELSE IF avgKneeAngle > 160 /\ state.currentPhase = "down"
       THEN [ repCount        |-> state.repCount + 1,
              currentPhase    |-> "up",
              lastPhaseChange |-> now,
              isValid         |-> isValidForm,
              formFeedback    |-> Feedback("Excellent squat #", state.repCount + 1) ]
       ELSE [state EXCEPT !.isValid = isValidForm]

\* processSitups with the rep credited when the up phase is entered
processSitups_countsOnEntry(pose, state, now) ==
    LET torsoAngle == pose.measure
        timeSinceLastChange == now - state.lastPhaseChange
        isValidForm == pose.confidence > 7 /\ torsoAngle >= 0 /\ torsoAngle <= 90
    IN IF timeSinceLastChange < 900
       THEN state
       ELSE IF torsoAngle > 35 /\ state.currentPhase # "up"
       THEN [ repCount        |-> state.repCount + 1,
              currentPhase    |-> "up",
              lastPhaseChange |-> now,
              isValid         |-> isValidForm,
              formFeedback    |-> Feedback("Perfect! Now lower down slowly!", 0) ]
       ELSE IF torsoAngle < 15 /\ state.currentPhase = "up"
       THEN [ repCount        |-> state.repCount,
              currentPhase    |-> "down",
              lastPhaseChange |-> now,
              isValid         |-> isValidForm,
              formFeedback    |-> Feedback("Amazing sit-up #", state.repCount) ]
       ELSE [state EXCEPT !.isValid = isValidForm]

\* processSitups with the up phase entered without assigning lastPhaseChange
processSitups_noStamp(pose, state, now) ==
    LET torsoAngle == pose.measure
        timeSinceLastChange == now - state.lastPhaseChange
        isValidForm == pose.confidence > 7 /\ torsoAngle >= 0 /\ torsoAngle <= 90
    IN IF timeSinceLastChange < 900
       THEN state
       ELSE IF torsoAngle > 35 /\ state.currentPhase # "up"
       THEN [ repCount        |-> state.repCount,
              currentPhase    |-> "up",
              lastPhaseChange |-> state.lastPhaseChange,
              isValid         |-> isValidForm,
              formFeedback    |-> Feedback("Perfect! Now lower down slowly!", 0) ]
       ELSE IF torsoAngle < 15 /\ state.currentPhase = "up"
       THEN [ repCount        |-> state.repCount + 1,
              currentPhase    |-> "down",
              lastPhaseChange |-> now,
              isValid         |-> isValidForm,
              formFeedback    |-> Feedback("Amazing sit-up #", state.repCount + 1) ]
       ELSE [state EXCEPT !.isValid = isValidForm]

processSitups(pose, state, now) ==
    LET torsoAngle == pose.measure
        timeSinceLastChange == now - state.lastPhaseChange
        isValidForm == pose.confidence > 7 /\ torsoAngle >= 0 /\ torsoAngle <= 90
    IN IF timeSinceLastChange < 900
       THEN state
       ELSE IF torsoAngle > 35 /\ state.currentPhase # "up"
       THEN [ repCount        |-> state.repCount,
              currentPhase    |-> "up",
              lastPhaseChange |-> now,
              isValid         |-> isValidForm,
              formFeedback    |-> Feedback("Perfect! Now lower down slowly!", 0) ]
       ELSE IF torsoAngle < 15 /\ state.currentPhase = "up"
       THEN [ repCount        |-> state.repCount + 1,
              currentPhase    |-> "down",
              lastPhaseChange |-> now,
              isValid         |-> isValidForm,
              formFeedback    |-> Feedback("Amazing sit-up #", state.repCount + 1) ]
       ELSE [state EXCEPT !.isValid = isValidForm]

\* processPlanks with the debounce of the pushups processor in front
processPlanks_debounced(pose, state, now) ==
    LET bodyAlignment == pose.measure
        isGoodForm == bodyAlignment < 40
    IN IF now - state.lastPhaseChange < 800
       THEN state
       ELSE [state EXCEPT
                !.isValid = isGoodForm /\ pose.confidence > 7,
                !.formFeedback = IF isGoodForm
                                 THEN Feedback("Perfect plank form! Hold it!", 0)
                                 ELSE Feedback("Keep your body straight!", 0)]

processPlanks(pose, state, now) ==
    LET bodyAlignment == pose.measure
        isGoodForm == bodyAlignment < 40
    IN [state EXCEPT
          !.isValid = isGoodForm /\ pose.confidence > 7,
          !.formFeedback = IF isGoodForm
                           THEN Feedback("Perfect plank form! Hold it!", 0)
                           ELSE Feedback("Keep your body straight!", 0)]

processExercisePose(exerciseType, pose, state, now) ==
    CASE exerciseType = "pushups" -> processPushups(pose, state, now)
      [] exerciseType = "squats"  -> processSquats(pose, state, now)
      [] exerciseType = "situps"  -> processSitups(pose, state, now)
      [] exerciseType = "planks"  -> processPlanks(pose, state, now)
      [] OTHER -> state

HasSession(exerciseType) == exerciseType \in DOMAIN exerciseStates

\* a set that drops the entries of the other exercise types
SetState_clearsOthers(states, exerciseType, state) ==
    [x \in {exerciseType} |-> state]

\* this.exerciseStates.set(exerciseType, state)
SetState(states, exerciseType, state) ==
    [x \in (DOMAIN states) \cup {exerciseType} |->
        IF x = exerciseType THEN state ELSE states[x]]

\* a delete that leaves the entry in place
DeleteState_keeps(states, exerciseType) ==
    states

\* this.exerciseStates.delete(exerciseType)
DeleteState(states, exerciseType) ==
    [x \in (DOMAIN states) \ {exerciseType} |-> states[x]]

Null == {}

\* getExerciseState: this.exerciseStates.get(exerciseType) || null
getExerciseState(states, exerciseType) ==
    IF exerciseType \in DOMAIN states THEN {states[exerciseType]} ELSE Null

\* op: the call or tick; at: Date.now() then; timer: the interval timer that ran it;
\* measure: the pose's measure; reported: the count passed to onRepDetected, 0 when
\* it was not invoked; result: the state processExercise returned, if it returned one
\* replaced: the repCount of the session a startExercise call replaced, if any
NoEvent ==
    [op |-> "init", exerciseType |-> "none", at |-> 0, timer |-> NoTimer,
     measure |-> 0, reported |-> 0, result |-> {}, replaced |-> NoCount]

PoseEvent(op, exerciseType, timer, measure, reported) ==
    [op |-> op, exerciseType |-> exerciseType, at |-> nowMs, timer |-> timer,
     measure |-> measure, reported |-> reported, result |-> {},
     replaced |-> IF op = "startExercise" /\ HasSession(exerciseType)
                  THEN exerciseStates[exerciseType].repCount ELSE NoCount]

FrameEvent(op, exerciseType, measure, result) ==
    [op |-> op, exerciseType |-> exerciseType, at |-> nowMs, timer |-> NoTimer,
     measure |-> measure, reported |-> 0, result |-> result,
     replaced |-> IF op = "startExercise" /\ HasSession(exerciseType)
                  THEN exerciseStates[exerciseType].repCount ELSE NoCount]

NoPhaseChange == [x \in ExerciseTypes |-> NoTime]

\* a callback is identified by the startExercise call it was passed to, as is the
\* interval timer whose closure holds it
NoCallbacks == [x \in ExerciseTypes |-> NoTimer]

StartExercise ==
    \E exerciseType \in tracked :
        /\ service = "timer"
        /\ started < MaxStarts
        /\ exerciseStates' = SetState(exerciseStates, exerciseType, NewExerciseState(nowMs))
        /\ started' = started + 1
        /\ timers' = timers \cup {[id |-> started + 1, exerciseType |-> exerciseType]}
        /\ detectionInterval' = started + 1
        /\ lastEvent' = PoseEvent("startExercise", exerciseType, started + 1, 0, 0)
        /\ phaseChangeAt' = [phaseChangeAt EXCEPT ![exerciseType] = NoTime]
        /\ onRepDetected' = [onRepDetected EXCEPT ![exerciseType] = started + 1]
        /\ UNCHANGED <<service, tracked, nowMs>>

StopExercise ==
    \E exerciseType \in tracked :
        /\ service = "timer"
        /\ exerciseStates' = DeleteState(exerciseStates, exerciseType)
        /\ timers' = {tm \in timers : tm.id # detectionInterval}
        /\ detectionInterval' = NoTimer
        /\ lastEvent' = PoseEvent("stopExercise", exerciseType, detectionInterval, 0, 0)
        /\ phaseChangeAt' = [phaseChangeAt EXCEPT ![exerciseType] = NoTime]
        /\ UNCHANGED <<service, tracked, onRepDetected, nowMs, started>>

\* detectExercise(exerciseType, onRepDetected), run by the interval timer tm
DetectExercise ==
    \E tm \in timers :
        \E pose \in Poses(tm.exerciseType) :
            LET exerciseType == tm.exerciseType
            IN IF ~HasSession(exerciseType)
               THEN /\ lastEvent' = PoseEvent("tick", exerciseType, tm.id, pose.measure, 0)
                    /\ UNCHANGED <<service, tracked, onRepDetected, nowMs, exerciseStates, timers,
                                   detectionInterval, started, phaseChangeAt>>
               ELSE LET state == exerciseStates[exerciseType]
                        updatedState == processExercisePose(exerciseType, pose, state, nowMs)
                    IN /\ exerciseStates' = SetState(exerciseStates, exerciseType, updatedState)
                       /\ lastEvent' =
                             PoseEvent("tick", exerciseType, tm.id, pose.measure,
                                       IF updatedState.repCount > state.repCount
                                       THEN updatedState.repCount ELSE 0)
                       /\ phaseChangeAt' =
                             IF updatedState.currentPhase # state.currentPhase
                             THEN [phaseChangeAt EXCEPT ![exerciseType] = nowMs]
                             ELSE phaseChangeAt
                       /\ UNCHANGED <<service, tracked, onRepDetected, nowMs, timers, detectionInterval, started>>

(***************************************************************************)
(* The frame-driven PoseDetectionService (services/PoseDetectionService.ts)*)
(* Its processors assign state.lastPhaseChange in the stored object and    *)
(* return a copy; processExercise does not store the copy.                 *)
(***************************************************************************)
NewExerciseState_frames(now) ==
    [ repCount        |-> 0,
      currentPhase    |-> "neutral",
      lastPhaseChange |-> now,
      isValid         |-> FALSE ]

\* each processor yields the state it returns
processPushups_frames(pose, state, now) ==
    LET avgArmAngle == pose.measure
        timeSinceLastChange == now - state.lastPhaseChange
    IN IF timeSinceLastChange < 800
       THEN state
       ELSE IF avgArmAngle < 120 /\ state.currentPhase # "down"
       THEN [ repCount        |-> state.repCount,
              currentPhase    |-> "down",
              lastPhaseChange |-> now,
              isValid         |-> pose.confidence > 7 ]
       ELSE IF avgArmAngle > 140 /\ state.currentPhase = "down"
       THEN [ repCount        |-> state.repCount + 1,
              currentPhase    |-> "up",
              lastPhaseChange |-> now,
              isValid         |-> pose.confidence > 7 ]
       ELSE [state EXCEPT !.isValid = pose.confidence > 7]

processSquats_frames(pose, state, now) ==
    LET avgKneeAngle == pose.measure
        timeSinceLastChange == now - state.lastPhaseChange
    IN IF timeSinceLastChange < 600
       THEN state
       ELSE IF avgKneeAngle < 100 /\ state.currentPhase # "down"
       THEN [ repCount        |-> state.repCount,
              currentPhase    |-> "down",
              lastPhaseChange |-> now,
              isValid         |-> pose.confidence > 7 ]
       ELSE IF avgKneeAngle > 160 /\ state.currentPhase = "down"
       THEN [ repCount        |-> state.repCount + 1,
              currentPhase    |-> "up",
              lastPhaseChange |-> now,
              isValid         |-> pose.confidence > 7 ]
       ELSE [state EXCEPT !.isValid = pose.confidence > 7]

processSitups_frames(pose, state, now) ==
    LET torsoAngle == pose.measure
        timeSinceLastChange == now - state.lastPhaseChange
    IN IF timeSinceLastChange < 700
       THEN state
       ELSE IF torsoAngle > 45 /\ state.currentPhase # "up"
       THEN [ repCount        |-> state.repCount,
              currentPhase    |-> "up",
              lastPhaseChange |-> now,
              isValid         |-> pose.confidence > 7 ]
       ELSE IF torsoAngle < 20 /\ state.currentPhase = "up"
       THEN [ repCount        |-> state.repCount + 1,
              currentPhase    |-> "down",
              lastPhaseChange |-> now,
              isValid         |-> pose.confidence > 7 ]
       ELSE [state EXCEPT !.isValid = pose.confidence > 7]

processPlanks_frames(pose, state, now) ==
    LET bodyAlignment == pose.measure
        isGoodForm == bodyAlignment < 50
    IN [state EXCEPT !.isValid = isGoodForm /\ pose.confidence > 7]

processExercise_frames(exerciseType, pose, state, now) ==
    CASE exerciseType = "pushups" -> processPushups_frames(pose, state, now)
      [] exerciseType = "squats"  -> processSquats_frames(pose, state, now)
      [] exerciseType = "situps"  -> processSitups_frames(pose, state, now)
      [] exerciseType = "planks"  -> processPlanks_frames(pose, state, now)
      [] OTHER -> state

\* the stored object after the processor ran: only its lastPhaseChange was assigned,
\* and the returned copy carries the assigned value
StoredAfter(state, returned) ==
    [state EXCEPT !.lastPhaseChange = returned.lastPhaseChange]

StartExercise_frames ==
    \E exerciseType \in tracked :
        /\ service = "frames"
        /\ exerciseStates' =
              SetState(exerciseStates, exerciseType, NewExerciseState_frames(nowMs))
        /\ lastEvent' = FrameEvent("startExercise", exerciseType, 0, {})
        /\ phaseChangeAt' = [phaseChangeAt EXCEPT ![exerciseType] = NoTime]
        /\ UNCHANGED <<service, tracked, onRepDetected, nowMs, timers, detectionInterval, started>>

StopExercise_frames ==
    \E exerciseType \in tracked :
        /\ service = "frames"
        /\ exerciseStates' = DeleteState(exerciseStates, exerciseType)
        /\ lastEvent' = FrameEvent("stopExercise", exerciseType, 0, {})
        /\ phaseChangeAt' = [phaseChangeAt EXCEPT ![exerciseType] = NoTime]
        /\ UNCHANGED <<service, tracked, onRepDetected, nowMs, timers, detectionInterval, started>>

\* processExercise starting a session where there is none, instead of throwing
ProcessExercise_startsSession ==
    \E exerciseType \in tracked :
        \E pose \in Poses(exerciseType) :
            /\ service = "frames"
            /\ LET state == IF HasSession(exerciseType)
                            THEN exerciseStates[exerciseType]
                            ELSE NewExerciseState_frames(nowMs)
                   returned == processExercise_frames(exerciseType, pose, state, nowMs)
               IN /\ exerciseStates' =
                        SetState(exerciseStates, exerciseType,
                                 StoredAfter(state, returned))
                  /\ lastEvent' = FrameEvent("processExercise", exerciseType,
                                             pose.measure, {returned})
                  /\ phaseChangeAt' =
                        IF returned.currentPhase # state.currentPhase
                        THEN [phaseChangeAt EXCEPT ![exerciseType] = nowMs]
                        ELSE phaseChangeAt
            /\ UNCHANGED <<service, tracked, onRepDetected, nowMs, timers, detectionInterval, started>>

\* processExercise(exerciseType, pose); without a state it throws
ProcessExercise ==
    \E exerciseType \in tracked :
        \E pose \in Poses(exerciseType) :
            /\ service = "frames"
            /\ IF ~HasSession(exerciseType)
               THEN /\ lastEvent' = FrameEvent("throw", exerciseType, pose.measure, {})
                    /\ UNCHANGED <<exerciseStates, phaseChangeAt>>
               ELSE LET state == exerciseStates[exerciseType]
                        returned == processExercise_frames(exerciseType, pose, state, nowMs)
                    IN /\ exerciseStates' =
                             SetState(exerciseStates, exerciseType,
                                      StoredAfter(state, returned))
                       /\ lastEvent' = FrameEvent("processExercise", exerciseType,
                                                  pose.measure, {returned})
                       /\ phaseChangeAt' =
                             IF returned.currentPhase # state.currentPhase
                             THEN [phaseChangeAt EXCEPT ![exerciseType] = nowMs]
                             ELSE phaseChangeAt
            /\ UNCHANGED <<service, tracked, onRepDetected, nowMs, timers, detectionInterval, started>>

\* the wall clock advances by one detection period
TimePasses ==
    /\ nowMs + TickMs <= MaxTicks * TickMs
    /\ nowMs' = nowMs + TickMs
    /\ UNCHANGED <<service, tracked, onRepDetected, exerciseStates, timers, detectionInterval, started,
                   lastEvent, phaseChangeAt>>

\* the wall clock advances by four detection periods, two exercise types tracked
TimePassesTwo ==
    /\ nowMs + 4 * TickMs <= MaxTicksTwo * 4 * TickMs
    /\ nowMs' = nowMs + 4 * TickMs
    /\ UNCHANGED <<service, tracked, onRepDetected, exerciseStates, timers, detectionInterval, started,
                   lastEvent, phaseChangeAt>>

(***************************************************************************)
(* The times at which the timer-driven service counts: an observer of its  *)
(* sessions, kept by the specification that measures the spacing of reps.  *)
(***************************************************************************)
VARIABLES
    countedFrom     \* per type: when the session last counted a rep or, before its
                    \* first rep, when startExercise created it

spacingVars == <<countedFrom>>

\* the step counts a rep of a session of the type
CountsRep(exerciseType) ==
    /\ exerciseType \in DOMAIN exerciseStates
    /\ exerciseType \in DOMAIN exerciseStates'
    /\ exerciseStates'[exerciseType].repCount > exerciseStates[exerciseType].repCount

(***************************************************************************)
(* ExerciseTrackingScreen (screens/ExerciseTrackingScreen.tsx): the props,  *)
(* the useState values and the refs of one instance of the component.  A    *)
(* press or a timer callback is taken together with the render it causes    *)
(* and the effect of that render, which React runs before the next render.  *)
(***************************************************************************)
VARIABLES
    screen,         \* props, state and refs of the screen instance
    screenTimers,   \* the interval timers of the screen that are running
    screenNow,      \* Date.now(), in seconds
    dispatched      \* the completeExercise payloads the screen has dispatched

screenVars == <<screen, screenTimers, screenNow, dispatched>>

TargetCounts == 0 .. MaxTarget

\* the component before it is mounted; intervals counts the setInterval calls
NoScreen ==
    [ mounted      |-> FALSE,
      exerciseType |-> "pushups",
      targetCount  |-> 1,
      currentCount |-> 0,
      isTracking   |-> FALSE,
      isCompleted  |-> FALSE,
      timeElapsed  |-> 0,
      timerRef     |-> NoTimer,
      startTimeRef |-> NoTime,
      intervals    |-> 0 ]

\* what a handler and the render after it leave behind
Rendered(s, ts, ds) == [screen |-> s, timers |-> ts, dispatched |-> ds]

\* handleExerciseComplete leaving the plank timer running
handleExerciseComplete_keepsTimer(s, ts, ds) ==
    Rendered([s EXCEPT !.isCompleted = TRUE, !.isTracking = FALSE],
             ts,
             Append(ds, [exerciseType |-> s.exerciseType, actualCount |-> s.currentCount]))

\* repIntervalRef is never assigned, so only timerRef.current is cleared
handleExerciseComplete(s, ts, ds) ==
    Rendered([s EXCEPT !.isCompleted = TRUE, !.isTracking = FALSE],
             ts \ {s.timerRef},
             Append(ds, [exerciseType |-> s.exerciseType, actualCount |-> s.currentCount]))

\* the effect with the dependencies [currentCount, targetCount]: it runs after the
\* first render and after a render in which currentCount differs from the render
\* before (targetCount is a prop that stays as it is)
countEffect(s, ts, ds, changed) ==
    IF changed /\ s.currentCount >= s.targetCount /\ ~s.isCompleted
    THEN handleExerciseComplete(s, ts, ds)
    ELSE Rendered(s, ts, ds)

\* a handler has left the state s and the timers ts: the render and its effect
Render(s, ts) ==
    LET r == countEffect(s, ts, dispatched, ~screen.mounted \/ s.currentCount # screen.currentCount)
    IN /\ screen' = r.screen
       /\ screenTimers' = r.timers
       /\ dispatched' = r.dispatched

\* the component is mounted: first render and its effect
Mount ==
    /\ ~screen.mounted
    /\ Render([screen EXCEPT !.mounted = TRUE], screenTimers)
    /\ UNCHANGED screenNow

\* startTracking, on the press of "Start Exercise", which is rendered when
\* !isTracking && !isCompleted
StartTracking ==
    /\ screen.mounted
    /\ ~screen.isTracking
    /\ ~screen.isCompleted
    /\ screen.intervals < MaxIntervals
    /\ LET s == [screen EXCEPT !.isTracking = TRUE, !.currentCount = 0, !.timeElapsed = 0,
                               !.startTimeRef = screenNow]
       IN IF screen.exerciseType = "planks"
          THEN Render([s EXCEPT !.timerRef = screen.intervals + 1,
                                !.intervals = screen.intervals + 1],
                      screenTimers \cup {screen.intervals + 1})
          ELSE Render(s, screenTimers)
    /\ UNCHANGED screenNow

\* stopTracking, on the press of "Pause", which is rendered when isTracking
StopTracking ==
    /\ screen.mounted
    /\ screen.isTracking
    /\ Render([screen EXCEPT !.isTracking = FALSE], screenTimers \ {screen.timerRef})
    /\ UNCHANGED screenNow

\* the press of "+1", rendered when isTracking && exerciseType !== "planks"
PressPlus ==
    /\ screen.mounted
    /\ screen.isTracking
    /\ screen.exerciseType # "planks"
    /\ Render([screen EXCEPT !.currentCount = screen.currentCount + 1], screenTimers)
    /\ UNCHANGED screenNow

\* the press of "-1": Math.max(0, prev - 1)
PressMinus ==
    /\ screen.mounted
    /\ screen.isTracking
    /\ screen.exerciseType # "planks"
    /\ Render([screen EXCEPT !.currentCount =
                  IF screen.currentCount - 1 > 0 THEN screen.currentCount - 1 ELSE 0],
              screenTimers)
    /\ UNCHANGED screenNow

\* the callback of a running plank timer, one second or (late) two seconds after
\* the clock was last read
PlankTimer ==
    \E tm \in screenTimers :
        \E late \in 1 .. 2 :
            /\ screenNow + late <= MaxSeconds
            /\ screenNow' = screenNow + late
            /\ LET elapsed == screenNow' - screen.startTimeRef
               IN Render([screen EXCEPT !.timeElapsed = elapsed, !.currentCount = elapsed],
                         screenTimers)

(***************************************************************************)
(* calculateAngle, the helper of both services, called on its own.  The    *)
(* keypoints have integer coordinates, with which the differences, the dot  *)
(* product and the squared magnitudes are exact in floating point too.      *)
(***************************************************************************)
VARIABLES
    anglePoints,   \* <<point1, point2, point3>> passed to calculateAngle
    angle          \* what it returned, if it was called

angleVars == <<anglePoints, angle>>

vars == <<challengeVars, poseVars, targetVars, spacingVars, screenVars, angleVars>>

Points == [x : 0 .. MaxCoord, y : 0 .. MaxCoord]

NoPoints == << >>
NoAngle == 0 - 2     \* calculateAngle has not been called
NaN == 0 - 1         \* the number that isNaN tells from every angle

\* (Math.acos(dot / (mag1 * mag2)) * 180) / Math.PI for mag1 * mag2 > 0, from the
\* exact cosine: 0, 45, 90, 135 and 180 degrees are told exactly, every other angle
\* is given as the middle of the interval between two of them; magSq is the square
\* of mag1 * mag2
acosDegrees(dot, magSq) ==
    IF dot * dot = magSq THEN (IF dot > 0 THEN 0 ELSE 180)
    ELSE IF dot = 0 THEN 90
    ELSE IF 2 * dot * dot = magSq THEN (IF dot > 0 THEN 45 ELSE 135)
    ELSE IF 2 * dot * dot > magSq THEN (IF dot > 0 THEN 22 ELSE 158)
    ELSE (IF dot > 0 THEN 68 ELSE 112)

\* calculateAngle returning the angle without the isNaN test
calculateAngle_noNaNTest(point1, point2, point3) ==
    LET vector1 == [x |-> point1.x - point2.x, y |-> point1.y - point2.y]
        vector2 == [x |-> point3.x - point2.x, y |-> point3.y - point2.y]
        dot == vector1.x * vector2.x + vector1.y * vector2.y
        mag1Sq == vector1.x * vector1.x + vector1.y * vector1.y
        mag2Sq == vector2.x * vector2.x + vector2.y * vector2.y
    IN IF mag1Sq * mag2Sq = 0 THEN NaN ELSE acosDegrees(dot, mag1Sq * mag2Sq)

\* calculateAngle dividing by mag1 * mag1: a quotient beyond 1 or below -1 has no
\* arc cosine (NaN)
calculateAngle_oneMagnitude(point1, point2, point3) ==
    LET vector1 == [x |-> point1.x - point2.x, y |-> point1.y - point2.y]
        vector2 == [x |-> point3.x - point2.x, y |-> point3.y - point2.y]
        dot == vector1.x * vector2.x + vector1.y * vector2.y
        mag1Sq == vector1.x * vector1.x + vector1.y * vector1.y
        computed == IF mag1Sq = 0 \/ dot * dot > mag1Sq * mag1Sq THEN NaN
                    ELSE acosDegrees(dot, mag1Sq * mag1Sq)
    IN IF computed = NaN THEN 0 ELSE computed

\* dot / (mag1 * mag2) is 0 / 0 = NaN when a magnitude is 0, and Math.acos(NaN)
\* is NaN
calculateAngle(point1, point2, point3) ==
    LET vector1 == [x |-> point1.x - point2.x, y |-> point1.y - point2.y]
        vector2 == [x |-> point3.x - point2.x, y |-> point3.y - point2.y]
        dot == vector1.x * vector2.x + vector1.y * vector2.y
        mag1Sq == vector1.x * vector1.x + vector1.y * vector1.y
        mag2Sq == vector2.x * vector2.x + vector2.y * vector2.y
        computed == IF mag1Sq * mag2Sq = 0 THEN NaN ELSE acosDegrees(dot, mag1Sq * mag2Sq)
    IN IF computed = NaN THEN 0 ELSE computed

CalculateAngle ==
    /\ angle' = calculateAngle(anglePoints[1], anglePoints[2], anglePoints[3])
    /\ UNCHANGED anglePoints

(***************************************************************************)
(* Specifications.                                                         *)
(***************************************************************************)
\* the challenge engine alone: no exercise is tracked
Init ==
    /\ calendar \in Calendars
    /\ today \in calendar
    /\ \A d \in calendar : today <= d
    /\ challenge = initialState
    /\ lastAction = NoAction
    /\ updatesOn = NoUpdates
    /\ service = "timer"
    /\ tracked = {}
    /\ nowMs = 0
    /\ exerciseStates = << >>
    /\ timers = {}
    /\ detectionInterval = NoTimer
    /\ started = 0
    /\ lastEvent = NoEvent
    /\ phaseChangeAt = NoPhaseChange
    /\ countedFrom = NoPhaseChange
    /\ onRepDetected = NoCallbacks
    /\ targetDay = 1
    /\ targetBaselines = DefaultBaselines
    /\ created = NoProgress
    /\ preview = NoPreview
    /\ anglePoints = NoPoints
    /\ angle = NoAngle
    /\ screen = NoScreen
    /\ screenTimers = {}
    /\ screenNow = 0
    /\ dispatched = << >>

Next ==
    \/ StartChallenge /\ UNCHANGED <<poseVars, targetVars, spacingVars, screenVars, angleVars>>
    \/ CompleteExercise /\ UNCHANGED <<poseVars, targetVars, spacingVars, screenVars, angleVars>>
    \/ AdvanceDay /\ UNCHANGED <<poseVars, targetVars, spacingVars, screenVars, angleVars>>
    \/ ResetChallenge /\ UNCHANGED <<poseVars, targetVars, spacingVars, screenVars, angleVars>>
    \/ UpdateBaselines /\ UNCHANGED <<poseVars, targetVars, spacingVars, screenVars, angleVars>>
    \/ SyncCurrentDay /\ UNCHANGED <<poseVars, targetVars, spacingVars, screenVars, angleVars>>
    \/ DatePasses /\ UNCHANGED <<poseVars, targetVars, spacingVars, screenVars, angleVars>>

\* the challenge engine, with calendar dates that do not decrease
Spec == Init /\ [][Next]_vars

\* one of the two pose services alone, tracking one exercise type as the tracking
\* screen does; no challenge action is dispatched
InitPose ==
    /\ calendar = {1}
    /\ today = 1
    /\ challenge = initialState
    /\ lastAction = NoAction
    /\ updatesOn = NoUpdates
    /\ service \in {"timer", "frames"}
    /\ tracked \in {{x} : x \in ExerciseTypes}
    /\ nowMs = 0
    /\ exerciseStates = << >>
    /\ timers = {}
    /\ detectionInterval = NoTimer
    /\ started = 0
    /\ lastEvent = NoEvent
    /\ phaseChangeAt = NoPhaseChange
    /\ countedFrom = NoPhaseChange
    /\ onRepDetected = NoCallbacks
    /\ targetDay = 1
    /\ targetBaselines = DefaultBaselines
    /\ created = NoProgress
    /\ preview = NoPreview
    /\ anglePoints = NoPoints
    /\ angle = NoAngle
    /\ screen = NoScreen
    /\ screenTimers = {}
    /\ screenNow = 0
    /\ dispatched = << >>

NextPose ==
    \/ StartExercise /\ UNCHANGED <<challengeVars, targetVars, spacingVars, screenVars, angleVars>>
    \/ StopExercise /\ UNCHANGED <<challengeVars, targetVars, spacingVars, screenVars, angleVars>>
    \/ DetectExercise /\ UNCHANGED <<challengeVars, targetVars, spacingVars, screenVars, angleVars>>
    \/ StartExercise_frames /\ UNCHANGED <<challengeVars, targetVars, spacingVars, screenVars, angleVars>>
    \/ StopExercise_frames /\ UNCHANGED <<challengeVars, targetVars, spacingVars, screenVars, angleVars>>
    \/ ProcessExercise /\ UNCHANGED <<challengeVars, targetVars, spacingVars, screenVars, angleVars>>
    \/ TimePasses /\ UNCHANGED <<challengeVars, targetVars, spacingVars, screenVars, angleVars>>

\* the pose services, with a wall clock that does not decrease
SpecPose == InitPose /\ [][NextPose]_vars

\* one of the two pose services tracking two exercise types at once
InitPoseTwo ==
    /\ calendar = {1}
    /\ today = 1
    /\ challenge = initialState
    /\ lastAction = NoAction
    /\ updatesOn = NoUpdates
    /\ service \in {"timer", "frames"}
    /\ tracked = {"pushups", "planks"}
    /\ nowMs = 0
    /\ exerciseStates = << >>
    /\ timers = {}
    /\ detectionInterval = NoTimer
    /\ started = 0
    /\ lastEvent = NoEvent
    /\ phaseChangeAt = NoPhaseChange
    /\ countedFrom = NoPhaseChange
    /\ onRepDetected = NoCallbacks
    /\ targetDay = 1
    /\ targetBaselines = DefaultBaselines
    /\ created = NoProgress
    /\ preview = NoPreview
    /\ anglePoints = NoPoints
    /\ angle = NoAngle
    /\ screen = NoScreen
    /\ screenTimers = {}
    /\ screenNow = 0
    /\ dispatched = << >>

NextPoseTwo ==
    \/ StartExercise /\ UNCHANGED <<challengeVars, targetVars, spacingVars, screenVars, angleVars>>
    \/ StopExercise /\ UNCHANGED <<challengeVars, targetVars, spacingVars, screenVars, angleVars>>
    \/ DetectExercise /\ UNCHANGED <<challengeVars, targetVars, spacingVars, screenVars, angleVars>>
    \/ StartExercise_frames /\ UNCHANGED <<challengeVars, targetVars, spacingVars, screenVars, angleVars>>
    \/ StopExercise_frames /\ UNCHANGED <<challengeVars, targetVars, spacingVars, screenVars, angleVars>>
    \/ ProcessExercise /\ UNCHANGED <<challengeVars, targetVars, spacingVars, screenVars, angleVars>>
    \/ TimePassesTwo /\ UNCHANGED <<challengeVars, targetVars, spacingVars, screenVars, angleVars>>

SpecPoseTwo == InitPoseTwo /\ [][NextPoseTwo]_vars

\* the challenge engine with a clock that shows the dates of the calendar in any
\* order, earlier dates after later ones included
InitAnyClock ==
    /\ calendar \in Calendars
    /\ today \in calendar
    /\ challenge = initialState
    /\ lastAction = NoAction
    /\ updatesOn = NoUpdates
    /\ service = "timer"
    /\ tracked = {}
    /\ nowMs = 0
    /\ exerciseStates = << >>
    /\ timers = {}
    /\ detectionInterval = NoTimer
    /\ started = 0
    /\ lastEvent = NoEvent
    /\ phaseChangeAt = NoPhaseChange
    /\ countedFrom = NoPhaseChange
    /\ onRepDetected = NoCallbacks
    /\ targetDay = 1
    /\ targetBaselines = DefaultBaselines
    /\ created = NoProgress
    /\ preview = NoPreview
    /\ anglePoints = NoPoints
    /\ angle = NoAngle
    /\ screen = NoScreen
    /\ screenTimers = {}
    /\ screenNow = 0
    /\ dispatched = << >>

NextAnyClock ==
    \/ StartChallenge /\ UNCHANGED <<poseVars, targetVars, spacingVars, screenVars, angleVars>>
    \/ CompleteExercise /\ UNCHANGED <<poseVars, targetVars, spacingVars, screenVars, angleVars>>
    \/ AdvanceDay /\ UNCHANGED <<poseVars, targetVars, spacingVars, screenVars, angleVars>>
    \/ ResetChallenge /\ UNCHANGED <<poseVars, targetVars, spacingVars, screenVars, angleVars>>
    \/ UpdateBaselines /\ UNCHANGED <<poseVars, targetVars, spacingVars, screenVars, angleVars>>
    \/ SyncCurrentDay /\ UNCHANGED <<poseVars, targetVars, spacingVars, screenVars, angleVars>>
    \/ ClockSet /\ UNCHANGED <<poseVars, targetVars, spacingVars, screenVars, angleVars>>

SpecAnyClock == InitAnyClock /\ [][NextAnyClock]_vars

\* the challenge engine on one date, with advanceDay dispatched on every day, so
\* that currentDay runs from 1 to 75 without the clock
InitAdvance ==
    /\ calendar = {1}
    /\ today = 1
    /\ challenge = initialState
    /\ lastAction = NoAction
    /\ updatesOn = NoUpdates
    /\ service = "timer"
    /\ tracked = {}
    /\ nowMs = 0
    /\ exerciseStates = << >>
    /\ timers = {}
    /\ detectionInterval = NoTimer
    /\ started = 0
    /\ lastEvent = NoEvent
    /\ phaseChangeAt = NoPhaseChange
    /\ countedFrom = NoPhaseChange
    /\ onRepDetected = NoCallbacks
    /\ targetDay = 1
    /\ targetBaselines = DefaultBaselines
    /\ created = NoProgress
    /\ preview = NoPreview
    /\ anglePoints = NoPoints
    /\ angle = NoAngle
    /\ screen = NoScreen
    /\ screenTimers = {}
    /\ screenNow = 0
    /\ dispatched = << >>

NextAdvance ==
    \/ StartChallenge /\ UNCHANGED <<poseVars, targetVars, spacingVars, screenVars, angleVars>>
    \/ CompleteExercise /\ UNCHANGED <<poseVars, targetVars, spacingVars, screenVars, angleVars>>
    \/ AdvanceDayAnyDay /\ UNCHANGED <<poseVars, targetVars, spacingVars, screenVars, angleVars>>
    \/ ResetChallenge /\ UNCHANGED <<poseVars, targetVars, spacingVars, screenVars, angleVars>>

SpecAdvance == InitAdvance /\ [][NextAdvance]_vars

\* createDailyProgress and the day-75 preview on every day 1..75 and each baseline
InitTargets ==
    /\ calendar = {1}
    /\ today = 1
    /\ challenge = initialState
    /\ lastAction = NoAction
    /\ updatesOn = NoUpdates
    /\ service = "timer"
    /\ tracked = {}
    /\ nowMs = 0
    /\ exerciseStates = << >>
    /\ timers = {}
    /\ detectionInterval = NoTimer
    /\ started = 0
    /\ lastEvent = NoEvent
    /\ phaseChangeAt = NoPhaseChange
    /\ countedFrom = NoPhaseChange
    /\ onRepDetected = NoCallbacks
    /\ targetDay \in 1 .. ChallengeDays
    /\ targetBaselines \in BaselineChoices
    /\ created = NoProgress
    /\ preview = NoPreview
    /\ anglePoints = NoPoints
    /\ angle = NoAngle
    /\ screen = NoScreen
    /\ screenTimers = {}
    /\ screenNow = 0
    /\ dispatched = << >>

NextTargets ==
    \/ CreateDailyProgress /\ UNCHANGED <<challengeVars, poseVars, spacingVars, screenVars, angleVars>>
    \/ PreviewDay75 /\ UNCHANGED <<challengeVars, poseVars, spacingVars, screenVars, angleVars>>

SpecTargets == InitTargets /\ [][NextTargets]_vars

\* calculateAngle on every triple of keypoints of the grid
InitAngle ==
    /\ calendar = {1}
    /\ today = 1
    /\ challenge = initialState
    /\ lastAction = NoAction
    /\ updatesOn = NoUpdates
    /\ service = "timer"
    /\ tracked = {}
    /\ nowMs = 0
    /\ exerciseStates = << >>
    /\ timers = {}
    /\ detectionInterval = NoTimer
    /\ started = 0
    /\ lastEvent = NoEvent
    /\ phaseChangeAt = NoPhaseChange
    /\ countedFrom = NoPhaseChange
    /\ onRepDetected = NoCallbacks
    /\ targetDay = 1
    /\ targetBaselines = DefaultBaselines
    /\ created = NoProgress
    /\ preview = NoPreview
    /\ anglePoints \in Points \X Points \X Points
    /\ angle = NoAngle
    /\ screen = NoScreen
    /\ screenTimers = {}
    /\ screenNow = 0
    /\ dispatched = << >>

NextAngle ==
    \/ CalculateAngle /\ UNCHANGED <<challengeVars, poseVars, targetVars, spacingVars, screenVars>>

SpecAngle == InitAngle /\ [][NextAngle]_vars

\* one instance of the tracking screen, for every exercise type and target
InitScreen ==
    /\ calendar = {1}
    /\ today = 1
    /\ challenge = initialState
    /\ lastAction = NoAction
    /\ updatesOn = NoUpdates
    /\ service = "timer"
    /\ tracked = {}
    /\ nowMs = 0
    /\ exerciseStates = << >>
    /\ timers = {}
    /\ detectionInterval = NoTimer
    /\ started = 0
    /\ lastEvent = NoEvent
    /\ phaseChangeAt = NoPhaseChange
    /\ countedFrom = NoPhaseChange
    /\ onRepDetected = NoCallbacks
    /\ targetDay = 1
    /\ targetBaselines = DefaultBaselines
    /\ created = NoProgress
    /\ preview = NoPreview
    /\ anglePoints = NoPoints
    /\ angle = NoAngle
    /\ screen \in {[NoScreen EXCEPT !.exerciseType = e, !.targetCount = t] :
                      e \in ExerciseTypes, t \in TargetCounts}
    /\ screenTimers = {}
    /\ screenNow = 0
    /\ dispatched = << >>

NextScreen ==
    \/ Mount /\ UNCHANGED <<challengeVars, poseVars, targetVars, spacingVars, angleVars>>
    \/ StartTracking /\ UNCHANGED <<challengeVars, poseVars, targetVars, spacingVars, angleVars>>
    \/ StopTracking /\ UNCHANGED <<challengeVars, poseVars, targetVars, spacingVars, angleVars>>
    \/ PressPlus /\ UNCHANGED <<challengeVars, poseVars, targetVars, spacingVars, angleVars>>
    \/ PressMinus /\ UNCHANGED <<challengeVars, poseVars, targetVars, spacingVars, angleVars>>
    \/ PlankTimer /\ UNCHANGED <<challengeVars, poseVars, targetVars, spacingVars, angleVars>>

SpecScreen == InitScreen /\ [][NextScreen]_vars

\* the timer-driven service with one rep-counted type, its rep times observed
InitSpacing ==
    /\ calendar = {1}
    /\ today = 1
    /\ challenge = initialState
    /\ lastAction = NoAction
    /\ updatesOn = NoUpdates
    /\ service = "timer"
    /\ tracked \in {{x} : x \in ExerciseTypes \ {"planks"}}
    /\ nowMs = 0
    /\ exerciseStates = << >>
    /\ timers = {}
    /\ detectionInterval = NoTimer
    /\ started = 0
    /\ lastEvent = NoEvent
    /\ phaseChangeAt = NoPhaseChange
    /\ countedFrom = NoPhaseChange
    /\ onRepDetected = NoCallbacks
    /\ targetDay = 1
    /\ targetBaselines = DefaultBaselines
    /\ created = NoProgress
    /\ preview = NoPreview
    /\ anglePoints = NoPoints
    /\ angle = NoAngle
    /\ screen = NoScreen
    /\ screenTimers = {}
    /\ screenNow = 0
    /\ dispatched = << >>

NextSpacing ==
    \/ StartExercise
          /\ countedFrom' = [countedFrom EXCEPT ![lastEvent'.exerciseType] = nowMs]
          /\ UNCHANGED <<challengeVars, targetVars, screenVars, angleVars>>
    \/ StopExercise
          /\ countedFrom' = [countedFrom EXCEPT ![lastEvent'.exerciseType] = NoTime]
          /\ UNCHANGED <<challengeVars, targetVars, screenVars, angleVars>>
    \/ DetectExercise
          /\ countedFrom' = (IF CountsRep(lastEvent'.exerciseType)
                             THEN [countedFrom EXCEPT ![lastEvent'.exerciseType] = nowMs]
                             ELSE countedFrom)
          /\ UNCHANGED <<challengeVars, targetVars, screenVars, angleVars>>
    \/ TimePasses /\ UNCHANGED <<challengeVars, targetVars, spacingVars, screenVars, angleVars>>

SpecSpacing == InitSpacing /\ [][NextSpacing]_vars

(***************************************************************************)
(* The challenge engine's properties.                                      *)
(***************************************************************************)
\* this step dispatches an action of the given type
Dispatches(type) == lastAction'.type = type /\ today' = today

\* this step is the completeExercise call that makes today's four exercises complete
CompletesToday ==
    /\ Dispatches("completeExercise")
    /\ ~TodayAllCompleted(challenge, today)
    /\ TodayAllCompleted(challenge', today)

\* C1: when the previous full-day completion was made yesterday with a streak
\* k >= 1, the call that completes today's four exercises makes the streak k + 1.
StreakContinues ==
    [][ ( /\ CompletesToday
          /\ challenge.lastCompletedDate = Yesterday(today)
          /\ challenge.currentStreak >= 1 )
        => challenge'.currentStreak = challenge.currentStreak + 1 ]_vars

\* C2: a completeExercise call on a date whose record is already allCompleted
\* leaves totalDaysCompleted, currentStreak and bestStreak unchanged.
IdempotentCompletion ==
    [][ ( /\ Dispatches("completeExercise")
          /\ TodayAllCompleted(challenge, today) )
        => /\ challenge'.totalDaysCompleted = challenge.totalDaysCompleted
           /\ challenge'.currentStreak = challenge.currentStreak
           /\ challenge'.bestStreak = challenge.bestStreak ]_vars

\* a completeExercise call has been made on an already allCompleted, counted date
RepeatedCompletion ==
    /\ lastAction.type = "completeExercise"
    /\ lastAction.wasAllCompleted
    /\ TodayAllCompleted(challenge, today)
    /\ challenge.totalDaysCompleted >= 1

\* C3: between two starts/resets, with dates that do not decrease, the counters
\* totalDaysCompleted and currentStreak are updated at most once per calendar date.
AtMostOncePerDate == \A d \in Dates : updatesOn[d] <= 1

\* today's record was regenerated after the date had been counted, and the four
\* exercises have been completed on it again
CompletedAgainAfterRegeneration ==
    /\ lastAction.type = "completeExercise"
    /\ lastAction.wasCounted
    /\ ~lastAction.wasAllCompleted
    /\ TodayAllCompleted(challenge, today)
    /\ updatesOn[today] = 1

\* C4 as stated: challengeCompleted turns true only in completeExercise, and once
\* true it stays true after every operation other than resetChallenge.
TerminalCompletion ==
    [][ /\ (~challenge.challengeCompleted /\ challenge'.challengeCompleted)
            => Dispatches("completeExercise")
        /\ (challenge.challengeCompleted /\ ~Dispatches("resetChallenge"))
            => challenge'.challengeCompleted ]_vars

\* C4 amended: challengeCompleted turns true only in completeExercise, and once
\* true it stays true after every operation other than resetChallenge and
\* startChallenge.
TerminalCompletionUntilRestart ==
    [][ /\ (~challenge.challengeCompleted /\ challenge'.challengeCompleted)
            => Dispatches("completeExercise")
        /\ ( /\ challenge.challengeCompleted
             /\ ~Dispatches("resetChallenge")
             /\ ~Dispatches("startChallenge") )
            => challenge'.challengeCompleted ]_vars

\* the challenge is completed and an operation has regenerated today's record since
CompletedSurvivesOperation ==
    /\ challenge.challengeCompleted
    /\ lastAction.type = "updateBaselines"
    /\ lastAction.wasAllCompleted
    /\ ~TodayAllCompleted(challenge, today)

\* C5: challengeCompleted turns true only in a completeExercise call after which
\* the record of the date being completed has day = 75 and allCompleted = true.
CompletedOnlyOnDay75 ==
    [][ (~challenge.challengeCompleted /\ challenge'.challengeCompleted)
        => /\ Dispatches("completeExercise")
           /\ TodayAllCompleted(challenge', today)
           /\ challenge'.dailyProgress[today].day = ChallengeDays ]_vars

(***************************************************************************)
(* The pose services' properties.                                          *)
(***************************************************************************)
\* the exercise types whose reps are counted from phases
RepCounted == {"pushups", "squats", "situps"}

\* the phase a rep begins with, and the phase that completes it
EntryPhase(exerciseType) == IF exerciseType = "situps" THEN "up" ELSE "down"

ExitPhase(exerciseType) == IF exerciseType = "situps" THEN "down" ELSE "up"

\* the debounce interval of the timer-driven service's processors
DebounceMs(exerciseType) ==
    CASE exerciseType = "pushups" -> 800
      [] exerciseType = "squats"  -> 1000
      [] exerciseType = "situps"  -> 900

\* the debounce interval of the frame-driven service's processors
DebounceMs_frames(exerciseType) ==
    CASE exerciseType = "pushups" -> 800
      [] exerciseType = "squats"  -> 600
      [] exerciseType = "situps"  -> 700

\* the debounce interval of the service in use
Debounce(exerciseType) ==
    IF service = "timer" THEN DebounceMs(exerciseType) ELSE DebounceMs_frames(exerciseType)

\* this step is a tick of the timer-driven service on a session of the type
Tick(exerciseType) ==
    /\ service = "timer"
    /\ HasSession(exerciseType)
    /\ nowMs' = nowMs
    /\ lastEvent'.op = "tick"
    /\ lastEvent'.exerciseType = exerciseType
    /\ lastEvent'.at = nowMs

\* this step processes a frame of a session of the type, in either service
Frame(exerciseType) ==
    /\ HasSession(exerciseType)
    /\ nowMs' = nowMs
    /\ lastEvent'.op \in {"tick", "processExercise"}
    /\ lastEvent'.exerciseType = exerciseType
    /\ lastEvent'.at = nowMs

\* the last event was a frame of the type's session, which is still there
FrameProcessed(exerciseType) ==
    /\ HasSession(exerciseType)
    /\ lastEvent.op \in {"tick", "processExercise"}
    /\ lastEvent.exerciseType = exerciseType

\* C6: a tick that changes the phase to the entry phase (down; sit-ups: up) updates
\* lastPhaseChange and leaves repCount unchanged; a tick that changes the phase from
\* the entry phase to the completing phase updates lastPhaseChange and increases
\* repCount by exactly 1; repCount changes on no other tick.
RepOnCompletingHalf ==
    [][ \A x \in RepCounted :
          Tick(x) =>
            LET s == exerciseStates[x]
                t == exerciseStates'[x]
            IN /\ (t.currentPhase # s.currentPhase /\ t.currentPhase = EntryPhase(x))
                    => /\ t.lastPhaseChange = nowMs
                       /\ t.repCount = s.repCount
               /\ (s.currentPhase = EntryPhase(x) /\ t.currentPhase = ExitPhase(x))
                    => /\ t.lastPhaseChange = nowMs
                       /\ t.repCount = s.repCount + 1
               /\ (t.repCount # s.repCount)
                    => /\ s.currentPhase = EntryPhase(x)
                       /\ t.currentPhase = ExitPhase(x) ]_vars

\* a tick has just completed the first sit-up of a session: up -> down, one rep
SitupCredited ==
    /\ service = "timer"
    /\ FrameProcessed("situps")
    /\ lastEvent.reported = 1
    /\ exerciseStates["situps"].currentPhase = "down"
    /\ exerciseStates["situps"].repCount = 1
    /\ exerciseStates["situps"].lastPhaseChange = lastEvent.at

\* C7: a frame processed less than the exercise's debounce interval after the
\* session's lastPhaseChange leaves the session state as it was, field by field,
\* and (frame-driven service) is answered with that state.
DebouncedFrameIgnored ==
    [][ \A x \in RepCounted :
          (Frame(x) /\ nowMs - exerciseStates[x].lastPhaseChange < Debounce(x))
            => /\ exerciseStates'[x] = exerciseStates[x]
               /\ (service = "frames") => lastEvent'.result = {exerciseStates[x]} ]_vars

\* a frame whose angle asks for the entry phase was processed inside the debounce
\* interval of a session that is not in that phase
EntryFrameDebounced ==
    \E x \in RepCounted :
        /\ FrameProcessed(x)
        /\ lastEvent.measure = (IF x = "situps" THEN 100 ELSE 0)
        /\ exerciseStates[x].currentPhase # EntryPhase(x)
        /\ lastEvent.at > exerciseStates[x].lastPhaseChange
        /\ lastEvent.at - exerciseStates[x].lastPhaseChange < Debounce(x)

\* C8 as stated: of two frames of a session less than the debounce interval apart,
\* not both change the phase, and the session state after the second equals the
\* session state after the first.
CloseFramesSameState ==
    [][ \A x \in RepCounted :
          (Frame(x) /\ FrameProcessed(x) /\ nowMs - lastEvent.at < Debounce(x))
            => /\ exerciseStates'[x] = exerciseStates[x]
               /\ ~(phaseChangeAt[x] = lastEvent.at /\ phaseChangeAt'[x] # phaseChangeAt[x])
      ]_vars

\* C8 amended: of two frames of a session less than the debounce interval apart,
\* not both change the phase, and when the first changed the phase, the session
\* state after the second equals the session state after the first.
CloseFrameAfterPhaseChange ==
    [][ \A x \in RepCounted :
          ( /\ Frame(x)
            /\ phaseChangeAt[x] # NoTime
            /\ nowMs - phaseChangeAt[x] < Debounce(x) )
            => /\ exerciseStates'[x] = exerciseStates[x]
               /\ phaseChangeAt'[x] = phaseChangeAt[x] ]_vars

\* a frame was processed after, and less than the debounce interval after, a frame
\* of the session that changed the phase
FrameSoonAfterPhaseChange ==
    \E x \in RepCounted :
        /\ FrameProcessed(x)
        /\ phaseChangeAt[x] # NoTime
        /\ lastEvent.at > phaseChangeAt[x]
        /\ lastEvent.at - phaseChangeAt[x] < Debounce(x)
        /\ exerciseStates[x].lastPhaseChange = phaseChangeAt[x]

\* C9: within a session, with a clock that does not decrease, repCount never
\* decreases and each processed frame changes it by 0 or by exactly +1.
RepMonotonic ==
    [][ \A x \in RepCounted :
          ( /\ HasSession(x)
            /\ x \in DOMAIN exerciseStates'
            /\ lastEvent'.op # "startExercise" )
            => \/ exerciseStates'[x].repCount = exerciseStates[x].repCount
               \/ exerciseStates'[x].repCount = exerciseStates[x].repCount + 1 ]_vars

\* a session that has counted a rep has processed a later frame that counted none
FrameAfterRepCountsNone ==
    \E x \in RepCounted :
        /\ FrameProcessed(x)
        /\ lastEvent.reported = 0
        /\ exerciseStates[x].repCount >= 1
        /\ lastEvent.at > exerciseStates[x].lastPhaseChange

\* C10: in a pushups session, a frame with arm angle below the down threshold (110)
\* processed 800 ms or more after the start takes a session that is still neutral
\* with no rep to down with no rep; a frame with arm angle above the up threshold
\* (150) processed 800 ms or more after that takes it to up with repCount 1.
PushupScenario ==
    [][ Tick("pushups") =>
          LET s == exerciseStates["pushups"]
              t == exerciseStates'["pushups"]
              elapsed == nowMs - s.lastPhaseChange
          IN /\ ( /\ s.currentPhase = "neutral"
                  /\ s.repCount = 0
                  /\ lastEvent'.measure < 110
                  /\ elapsed >= DebounceMs("pushups") )
                  => /\ t.currentPhase = "down"
                     /\ t.repCount = 0
             /\ ( /\ s.currentPhase = "down"
                  /\ s.repCount = 0
                  /\ lastEvent'.measure > 150
                  /\ elapsed >= DebounceMs("pushups") )
                  => /\ t.currentPhase = "up"
                     /\ t.repCount = 1 ]_vars

\* the scenario has run: after the down phase, a frame at 155 degrees has taken the
\* session to up and credited its first rep, two debounce intervals or more from 0
PushupScenarioDone ==
    /\ service = "timer"
    /\ FrameProcessed("pushups")
    /\ lastEvent.measure = 155
    /\ lastEvent.reported = 1
    /\ exerciseStates["pushups"].currentPhase = "up"
    /\ exerciseStates["pushups"].repCount = 1
    /\ exerciseStates["pushups"].lastPhaseChange = lastEvent.at
    /\ lastEvent.at >= 2 * DebounceMs("pushups")

(***************************************************************************)
(* The challenge engine's invariants.                                      *)
(***************************************************************************)
\* C11: whatever dates the operations observe, 1 <= currentDay <= 75.
CurrentDayInRange ==
    /\ challenge.currentDay >= 1
    /\ challenge.currentDay <= ChallengeDays

\* C12: in every reachable state, currentStreak <= bestStreak.
StreakAtMostBest == challenge.currentStreak <= challenge.bestStreak

\* a second day has been counted after a gap: the streak was set back to 1 and the
\* best streak was kept
StreakSetBackBestKept ==
    /\ challenge.totalDaysCompleted = 2
    /\ challenge.currentStreak = 1
    /\ challenge.bestStreak = 1
    /\ challenge.lastCompletedDate = today

\* C13: in every stored DailyProgress record, allCompleted is true exactly when the
\* completed flags of the four exercises are all true.
AllCompletedIffFour ==
    \A d \in DOMAIN challenge.dailyProgress :
        challenge.dailyProgress[d].allCompleted
            <=> \A e \in ExerciseTypes : challenge.dailyProgress[d].exercises[e].completed

\* one record has its four exercises completed, another one three of them
FullAndPartialRecords ==
    \E d1, d2 \in DOMAIN challenge.dailyProgress :
        /\ challenge.dailyProgress[d1].allCompleted
        /\ ~challenge.dailyProgress[d2].allCompleted
        /\ Cardinality({e \in ExerciseTypes :
                           challenge.dailyProgress[d2].exercises[e].completed}) = 3

\* C14: when currentStreak >= 1 and the previous full-day completion was made on a
\* date before yesterday, the call that completes today's four exercises sets
\* currentStreak to exactly 1.
StreakResetAfterGap ==
    [][ ( /\ CompletesToday
          /\ challenge.currentStreak >= 1
          /\ challenge.lastCompletedDate # NoDate
          /\ challenge.lastCompletedDate < Yesterday(today) )
        => challenge'.currentStreak = 1 ]_vars

\* today has been completed and counted, the completion before it lies more than
\* one date back
CompletedAfterGap ==
    /\ lastAction.type = "completeExercise"
    /\ ~lastAction.wasAllCompleted
    /\ ~lastAction.wasCounted
    /\ TodayAllCompleted(challenge, today)
    /\ challenge.lastCompletedDate = today
    /\ challenge.totalDaysCompleted = 2
    /\ challenge.currentStreak = 1
    /\ \E d \in DOMAIN challenge.dailyProgress :
          d < Yesterday(today) /\ challenge.dailyProgress[d].allCompleted

\* C15: a DailyProgress created for day d from baselines b has pushups, squats and
\* situps targets b[exercise] + (d - 1) and planks target b.planks + (d - 1) * 5,
\* with every completed flag and allCompleted false; baseline pushups 10 gives 10,
\* 24, 39, 84 on days 1, 15, 30, 75, baseline planks 30 gives 400 on day 75, and the
\* day-75 targets are the ones the onboarding preview shows.
TargetFormula ==
    created # NoProgress =>
        /\ created.day = targetDay
        /\ \A e \in ExerciseTypes \ {"planks"} :
              created.exercises[e].target = targetBaselines[e] + (targetDay - 1)
        /\ created.exercises["planks"].target =
              targetBaselines["planks"] + (targetDay - 1) * 5
        /\ \A e \in ExerciseTypes : ~created.exercises[e].completed
        /\ ~created.allCompleted
        /\ targetBaselines["pushups"] = 10 =>
              /\ targetDay = 1 => created.exercises["pushups"].target = 10
              /\ targetDay = 15 => created.exercises["pushups"].target = 24
              /\ targetDay = 30 => created.exercises["pushups"].target = 39
              /\ targetDay = 75 => created.exercises["pushups"].target = 84
        /\ (targetBaselines["planks"] = 30 /\ targetDay = 75)
              => created.exercises["planks"].target = 400
        /\ (targetDay = 75 /\ preview # NoPreview)
              => \A e \in ExerciseTypes : created.exercises[e].target = preview[e]

\* the record of day 75 has been created from the default baselines, and the
\* onboarding preview computed from them
Day75CreatedAndPreviewed ==
    /\ created # NoProgress
    /\ preview # NoPreview
    /\ targetDay = 75
    /\ targetBaselines = DefaultBaselines
    /\ created.exercises["pushups"].target = 84
    /\ preview["planks"] = 400

\* the four targets of a record
Targets(rec) == [e \in ExerciseTypes |-> rec.exercises[e].target]

\* C16: the targets of an existing record are never changed by completeExercise,
\* advanceDay or syncCurrentDay; updateBaselines changes at most those of the
\* current date's record.
TargetsFixedAtCreation ==
    [][ \A d \in (DOMAIN challenge.dailyProgress) \cap (DOMAIN challenge'.dailyProgress) :
          ( \/ Dispatches("completeExercise")
            \/ Dispatches("advanceDay")
            \/ Dispatches("syncCurrentDay")
            \/ (Dispatches("updateBaselines") /\ d # today) )
          => Targets(challenge'.dailyProgress[d]) = Targets(challenge.dailyProgress[d])
      ]_vars

\* C17: isActive becomes true only through startChallenge, and challengeCompleted
\* is true only in states where isActive is true.
CompletedOnlyWhenActive ==
    [][ /\ (~challenge.isActive /\ challenge'.isActive) => Dispatches("startChallenge")
        /\ challenge'.challengeCompleted => challenge'.isActive ]_vars

(***************************************************************************)
(* The pose services' session lifecycle.                                   *)
(***************************************************************************)
\* this step is a startExercise call for the type
Starts(exerciseType) ==
    /\ nowMs' = nowMs
    /\ lastEvent'.op = "startExercise"
    /\ lastEvent'.exerciseType = exerciseType
    /\ lastEvent'.at = nowMs

\* this step processes a frame for the type, whether it has a session or not
FrameFor(exerciseType) ==
    /\ nowMs' = nowMs
    /\ lastEvent'.op \in {"tick", "processExercise", "throw"}
    /\ lastEvent'.exerciseType = exerciseType
    /\ lastEvent'.at = nowMs

\* C18: stopExercise(type) leaves getExerciseState(type) null, and while the type
\* has no session, every step other than startExercise(type) - the ticks of timers
\* still scheduled included - leaves it without one and invokes no rep callback
\* for it.
StopEffective ==
    [][ \A x \in ExerciseTypes :
          /\ (lastEvent'.op = "stopExercise" /\ lastEvent'.exerciseType = x)
                => getExerciseState(exerciseStates', x) = Null
          /\ (~HasSession(x) /\ ~Starts(x))
                => /\ getExerciseState(exerciseStates', x) = Null
                   /\ (lastEvent'.exerciseType = x)
                         => (lastEvent'.reported = 0 /\ lastEvent'.result = {}) ]_vars

\* a timer that is still scheduled has ticked for a type whose session was stopped
TickAfterStop ==
    \E tm \in timers :
        /\ lastEvent.op = "tick"
        /\ lastEvent.timer = tm.id
        /\ lastEvent.exerciseType = tm.exerciseType
        /\ getExerciseState(exerciseStates, tm.exerciseType) = Null
        /\ lastEvent.reported = 0

\* C19: startExercise(type), at any time, leaves the type's session with
\* repCount = 0, currentPhase = neutral, lastPhaseChange = now and isValid = false,
\* and the sessions of the other types as they were.
StartResets ==
    [][ \A x \in ExerciseTypes :
          Starts(x) =>
            /\ x \in DOMAIN exerciseStates'
            /\ exerciseStates'[x].repCount = 0
            /\ exerciseStates'[x].currentPhase = "neutral"
            /\ exerciseStates'[x].lastPhaseChange = nowMs
            /\ exerciseStates'[x].isValid = FALSE
            /\ \A y \in ExerciseTypes \ {x} :
                  getExerciseState(exerciseStates', y) = getExerciseState(exerciseStates, y)
      ]_vars

\* startExercise has replaced a live session that had counted a rep
RestartedAfterRep ==
    /\ lastEvent.op = "startExercise"
    /\ lastEvent.replaced >= 1
    /\ HasSession(lastEvent.exerciseType)
    /\ exerciseStates[lastEvent.exerciseType].repCount = 0
    /\ exerciseStates[lastEvent.exerciseType].lastPhaseChange = lastEvent.at

\* C20: a frame processed for a type that has no session creates no session,
\* counts no rep, invokes no rep callback, returns no state, and leaves every
\* existing session as it was.
MissingSessionNoOp ==
    [][ \A x \in ExerciseTypes :
          (~HasSession(x) /\ FrameFor(x))
            => /\ exerciseStates' = exerciseStates
               /\ lastEvent'.reported = 0
               /\ lastEvent'.result = {} ]_vars

\* processExercise has thrown for a type without a session while the session of
\* another type, started earlier, is live
ThrownBesideLiveSession ==
    /\ lastEvent.op = "throw"
    /\ ~HasSession(lastEvent.exerciseType)
    /\ \E y \in DOMAIN exerciseStates : exerciseStates[y].lastPhaseChange < lastEvent.at

(***************************************************************************)
(* The rep callback, planks, feedback and degenerate frames.               *)
(***************************************************************************)
\* C21: a tick on which the session's repCount increases invokes, once, the
\* callback given to the most recent startExercise of the type, with the new
\* repCount; a tick on which it does not increase invokes no callback; the counts
\* reported within a session are 1, 2, 3, ... without gap or repeat.
RepCallback ==
    [][ \A x \in ExerciseTypes :
          Tick(x) =>
            LET s == exerciseStates[x]
                t == exerciseStates'[x]
            IN /\ (t.repCount > s.repCount)
                    => /\ lastEvent'.reported = t.repCount
                       /\ lastEvent'.timer = onRepDetected[x]
               /\ (t.repCount <= s.repCount) => lastEvent'.reported = 0
               /\ (lastEvent'.reported # 0) => lastEvent'.reported = s.repCount + 1 ]_vars

\* C21 without the identity of the callback: a tick reports a count exactly when
\* the repCount increases, and the count is the previous one plus 1.
RepReportedOncePerRep ==
    [][ \A x \in ExerciseTypes :
          Tick(x) =>
            LET s == exerciseStates[x]
                t == exerciseStates'[x]
            IN /\ (t.repCount > s.repCount) => lastEvent'.reported = t.repCount
               /\ (t.repCount <= s.repCount) => lastEvent'.reported = 0
               /\ (lastEvent'.reported # 0) => lastEvent'.reported = s.repCount + 1 ]_vars

\* C22: every frame processed in a planks session leaves currentPhase neutral,
\* repCount 0 and lastPhaseChange at the start time; isValid and the feedback are
\* computed anew from the frame on every tick, however soon after the start: the
\* feedback tells whether the body alignment is below 40, and isValid is true only
\* when it is (frame-driven service: below 50, in the state returned).
PlanksNeverCount ==
    [][ Frame("planks") =>
          LET s == exerciseStates["planks"]
              t == exerciseStates'["planks"]
          IN /\ s.currentPhase = "neutral" /\ s.repCount = 0
             /\ t.currentPhase = "neutral" /\ t.repCount = 0
             /\ t.lastPhaseChange = s.lastPhaseChange
             /\ phaseChangeAt'["planks"] = NoTime
             /\ lastEvent'.reported = 0
             /\ (service = "timer") =>
                   /\ t.formFeedback =
                         (IF lastEvent'.measure < 40
                          THEN Feedback("Perfect plank form! Hold it!", 0)
                          ELSE Feedback("Keep your body straight!", 0))
                   /\ t.isValid => lastEvent'.measure < 40
             /\ (service = "frames") =>
                   /\ t = s
                   /\ \A r \in lastEvent'.result :
                         /\ r.currentPhase = "neutral" /\ r.repCount = 0
                         /\ r.lastPhaseChange = s.lastPhaseChange
                         /\ r.isValid => lastEvent'.measure < 50 ]_vars

\* a planks tick at the very time of the start, inside what would be any debounce
\* interval, has made the form valid and replaced the feedback; nothing else moved
PlanksRecomputedAtOnce ==
    /\ service = "timer"
    /\ FrameProcessed("planks")
    /\ lastEvent.measure = 30
    /\ lastEvent.at = exerciseStates["planks"].lastPhaseChange
    /\ exerciseStates["planks"].isValid
    /\ exerciseStates["planks"].formFeedback = Feedback("Perfect plank form! Hold it!", 0)
    /\ exerciseStates["planks"].repCount = 0
    /\ exerciseStates["planks"].currentPhase = "neutral"

\* the feedback a processor of the timer-driven service writes on entering a phase
PhaseFeedback(exerciseType, phase, repCount) ==
    CASE exerciseType = "pushups" ->
             IF phase = "down" THEN Feedback("Good! Now push up!", 0)
             ELSE Feedback("Perfect push-up #", repCount)
      [] exerciseType = "squats" ->
             IF phase = "down" THEN Feedback("Great squat! Now stand up!", 0)
             ELSE Feedback("Excellent squat #", repCount)
      [] exerciseType = "situps" ->
             IF phase = "up" THEN Feedback("Perfect! Now lower down slowly!", 0)
             ELSE Feedback("Amazing sit-up #", repCount)

\* C23: for pushups, squats and sit-ups a tick replaces the session's feedback
\* exactly when it changes currentPhase (by the text of the phase entered), and
\* leaves it as it was on every other tick, debounced or in the gap between the
\* thresholds; for planks every tick writes the feedback of its frame.
FeedbackOnPhaseChange ==
    [][ /\ \A x \in RepCounted :
              Tick(x) =>
                LET s == exerciseStates[x]
                    t == exerciseStates'[x]
                IN /\ (t.currentPhase # s.currentPhase)
                        => /\ t.formFeedback # s.formFeedback
                           /\ t.formFeedback = PhaseFeedback(x, t.currentPhase, t.repCount)
                   /\ (t.currentPhase = s.currentPhase)
                        => t.formFeedback = s.formFeedback
        /\ Tick("planks") =>
              exerciseStates'["planks"].formFeedback =
                  (IF lastEvent'.measure < 40
                   THEN Feedback("Perfect plank form! Hold it!", 0)
                   ELSE Feedback("Keep your body straight!", 0)) ]_vars

\* a sample angle between the two thresholds of a processor
GapMeasure(exerciseType) ==
    CASE exerciseType = "pushups" -> 130
      [] exerciseType = "squats"  -> 140
      [] exerciseType = "situps"  -> 35

\* a tick past the debounce interval with the angle between the two thresholds
\* was processed in the entry phase: the feedback is still the one written on
\* entering the phase
GapTickKeepsFeedback ==
    \E x \in RepCounted :
        /\ service = "timer"
        /\ FrameProcessed(x)
        /\ lastEvent.measure = GapMeasure(x)
        /\ lastEvent.at - exerciseStates[x].lastPhaseChange >= DebounceMs(x)
        /\ exerciseStates[x].currentPhase = EntryPhase(x)
        /\ exerciseStates[x].formFeedback = PhaseFeedback(x, EntryPhase(x), 0)

\* C24: a frame with degenerate geometry (computed angle 0) processed for
\* pushups, squats or sit-ups does not throw, leaves isValid false and does not
\* increase repCount on that tick.
DegenerateFrameInvalidNoRep ==
    [][ \A x \in RepCounted :
          (Tick(x) /\ lastEvent'.measure = 0)
            => /\ ~exerciseStates'[x].isValid
               /\ exerciseStates'[x].repCount = exerciseStates[x].repCount
               /\ lastEvent'.reported = 0 ]_vars

(***************************************************************************)
(* The challenge engine's operations, one by one.                          *)
(***************************************************************************)
\* the record is the one of the day: its targets follow the target formula for the
\* baselines and nothing in it is completed
FreshRecord(rec, date, day, baselines) ==
    /\ rec.date = date
    /\ rec.day = day
    /\ \A e \in ExerciseTypes \ {"planks"} :
          rec.exercises[e].target = baselines[e] + (day - 1)
    /\ rec.exercises["planks"].target = baselines["planks"] + (day - 1) * 5
    /\ \A e \in ExerciseTypes :
          ~rec.exercises[e].completed /\ rec.exercises[e].actual = NoCount
    /\ ~rec.allCompleted

\* C25: advanceDay with currentDay < 75 increases currentDay by exactly 1 and
\* stores for the current date a fresh record of the new currentDay and the
\* current baselines; advanceDay with currentDay = 75 leaves the whole
\* ChallengeState unchanged.
AdvanceDayEffect ==
    [][ Dispatches("advanceDay") =>
          /\ (challenge.currentDay < 75)
                => /\ challenge'.currentDay = challenge.currentDay + 1
                   /\ challenge'.baselines = challenge.baselines
                   /\ HasProgress(challenge', today)
                   /\ FreshRecord(challenge'.dailyProgress[today], today,
                                  challenge'.currentDay, challenge.baselines)
          /\ (challenge.currentDay = 75) => challenge' = challenge ]_vars

\* advanceDay was dispatched on day 75 with today's four exercises completed, and
\* they still are: the days before were advanced through, this one changed nothing
AdvanceOnLastDayKeepsRecord ==
    /\ lastAction.type = "advanceDay"
    /\ lastAction.wasAllCompleted
    /\ TodayAllCompleted(challenge, today)
    /\ challenge.currentDay = 75
    /\ challenge.dailyProgress[today].day = 75
    /\ challenge.dailyProgress[today].exercises["planks"].target >= 400

\* what updateBaselines leaves alone: the records of the other dates, and the day
\* and completion counters
UpdateBaselinesFrame ==
    /\ DOMAIN challenge'.dailyProgress = DOMAIN challenge.dailyProgress
    /\ \A d \in (DOMAIN challenge.dailyProgress) \ {today} :
          challenge'.dailyProgress[d] = challenge.dailyProgress[d]
    /\ challenge'.currentDay = challenge.currentDay
    /\ challenge'.currentStreak = challenge.currentStreak
    /\ challenge'.bestStreak = challenge.bestStreak
    /\ challenge'.totalDaysCompleted = challenge.totalDaysCompleted
    /\ challenge'.lastCompletedDate = challenge.lastCompletedDate
    /\ challenge'.challengeCompleted = challenge.challengeCompleted

\* C26 as stated: after updateBaselines(nb) in any state, baselines = nb; if the
\* current date has a record, its targets afterwards follow the formula for nb
\* and currentDay and nothing in it is completed; the records of the other dates
\* and the day and completion counters are unchanged.
UpdateBaselinesRegenerates ==
    [][ Dispatches("updateBaselines") =>
          /\ challenge'.baselines = lastAction'.payload
          /\ HasProgress(challenge, today)
                => FreshRecord(challenge'.dailyProgress[today], today,
                               challenge.currentDay, lastAction'.payload)
          /\ UpdateBaselinesFrame ]_vars

\* C26 amended: after updateBaselines(nb) in any state, baselines = nb; if the
\* challenge is active and the current date has a record, its targets afterwards
\* follow the formula for nb and currentDay and nothing in it is completed, and if
\* the challenge is not active the record of the current date is unchanged too;
\* the records of the other dates and the day and completion counters are
\* unchanged.
UpdateBaselinesRegeneratesWhenActive ==
    [][ Dispatches("updateBaselines") =>
          /\ challenge'.baselines = lastAction'.payload
          /\ (challenge.isActive /\ HasProgress(challenge, today))
                => FreshRecord(challenge'.dailyProgress[today], today,
                               challenge.currentDay, lastAction'.payload)
          /\ ~challenge.isActive
                => challenge'.dailyProgress = challenge.dailyProgress
          /\ UpdateBaselinesFrame ]_vars

\* updateBaselines with other baselines than the default ones has regenerated the
\* record of a date that was completed and counted: the targets are the new ones,
\* the completion is gone from the record and kept in the counters
RegeneratedFromNewBaselines ==
    /\ lastAction.type = "updateBaselines"
    /\ lastAction.payload # DefaultBaselines
    /\ lastAction.wasAllCompleted
    /\ challenge.isActive
    /\ challenge.baselines = lastAction.payload
    /\ HasProgress(challenge, today)
    /\ FreshRecord(challenge.dailyProgress[today], today, challenge.currentDay,
                   lastAction.payload)
    /\ challenge.totalDaysCompleted >= 1
    /\ challenge.lastCompletedDate = today

\* C27: syncCurrentDay on an active challenge with a startDate sets currentDay to
\* min(75, days from startDate to today + 1), creates today's record from the new
\* currentDay and the baselines only if there is none, and leaves every existing
\* record and the streak and completion counters untouched; on an inactive
\* challenge, or one without startDate, it changes nothing.
SyncCurrentDayEffect ==
    [][ Dispatches("syncCurrentDay") =>
          IF challenge.isActive /\ challenge.startDate # NoDate
          THEN LET elapsed == today - challenge.startDate
               IN /\ challenge'.currentDay = (IF elapsed + 1 > 75 THEN 75 ELSE elapsed + 1)
                  /\ DOMAIN challenge'.dailyProgress =
                        (DOMAIN challenge.dailyProgress) \cup {today}
                  /\ \A d \in DOMAIN challenge.dailyProgress :
                        challenge'.dailyProgress[d] = challenge.dailyProgress[d]
                  /\ ~HasProgress(challenge, today)
                        => FreshRecord(challenge'.dailyProgress[today], today,
                                       challenge'.currentDay, challenge.baselines)
                  /\ challenge'.currentStreak = challenge.currentStreak
                  /\ challenge'.bestStreak = challenge.bestStreak
                  /\ challenge'.totalDaysCompleted = challenge.totalDaysCompleted
                  /\ challenge'.lastCompletedDate = challenge.lastCompletedDate
                  /\ challenge'.challengeCompleted = challenge.challengeCompleted
                  /\ challenge'.baselines = challenge.baselines
          ELSE challenge' = challenge ]_vars

\* syncCurrentDay has run more than 75 days after the start: currentDay is 75, the
\* date has the record of day 75, and the start date's completed record and the
\* counters are as they were
SyncedPastLastDay ==
    /\ lastAction.type = "syncCurrentDay"
    /\ challenge.isActive
    /\ today - challenge.startDate + 1 > 75
    /\ challenge.currentDay = 75
    /\ HasProgress(challenge, today)
    /\ FreshRecord(challenge.dailyProgress[today], today, 75, challenge.baselines)
    /\ TodayAllCompleted(challenge, challenge.startDate)
    /\ challenge.totalDaysCompleted = 1
    /\ challenge.lastCompletedDate = challenge.startDate

\* C28: after startChallenge(b) from any state, isActive is true, startDate is the
\* current date, currentDay is 1, baselines are b, the streaks and
\* totalDaysCompleted are 0, lastCompletedDate is null, challengeCompleted is false,
\* and dailyProgress holds exactly one record, for the current date, with day 1,
\* targets equal to b and nothing completed.
StartChallengeEffect ==
    [][ Dispatches("startChallenge") =>
          LET b == lastAction'.payload
          IN /\ challenge'.isActive
             /\ challenge'.startDate = today
             /\ challenge'.currentDay = 1
             /\ challenge'.baselines = b
             /\ challenge'.currentStreak = 0
             /\ challenge'.bestStreak = 0
             /\ challenge'.totalDaysCompleted = 0
             /\ challenge'.lastCompletedDate = NoDate
             /\ ~challenge'.challengeCompleted
             /\ DOMAIN challenge'.dailyProgress = {today}
             /\ challenge'.dailyProgress[today].date = today
             /\ challenge'.dailyProgress[today].day = 1
             /\ \A e \in ExerciseTypes :
                   /\ challenge'.dailyProgress[today].exercises[e].target = b[e]
                   /\ ~challenge'.dailyProgress[today].exercises[e].completed
                   /\ challenge'.dailyProgress[today].exercises[e].actual = NoCount
             /\ ~challenge'.dailyProgress[today].allCompleted ]_vars

\* startChallenge was dispatched with other baselines than the default ones on a
\* later date of a challenge, a date that was completed and counted: that record,
\* the earlier ones and the counters are gone
RestartedOnCompletedDate ==
    /\ lastAction.type = "startChallenge"
    /\ lastAction.payload # DefaultBaselines
    /\ lastAction.wasAllCompleted
    /\ lastAction.wasCounted
    /\ today = ChallengeDays + 1
    /\ challenge.startDate = today
    /\ DOMAIN challenge.dailyProgress = {today}
    /\ ~TodayAllCompleted(challenge, today)
    /\ challenge.totalDaysCompleted = 0
    /\ challenge.baselines = lastAction.payload

\* C29: completeExercise on a date that has no record creates the record from the
\* current currentDay and baselines; afterwards the record exists with the named
\* exercise completed and its actual count recorded, the other three exercises
\* not completed, and allCompleted false.
LazyRecordOnCompletion ==
    [][ (Dispatches("completeExercise") /\ ~HasProgress(challenge, today)) =>
          /\ HasProgress(challenge', today)
          /\ LET named == lastAction'.payload.exerciseType
                 rec == challenge'.dailyProgress[today]
             IN /\ rec.date = today
                /\ rec.day = challenge.currentDay
                /\ \A e \in ExerciseTypes \ {"planks"} :
                      rec.exercises[e].target =
                          challenge.baselines[e] + (challenge.currentDay - 1)
                /\ rec.exercises["planks"].target =
                      challenge.baselines["planks"] + (challenge.currentDay - 1) * 5
                /\ rec.exercises[named].completed
                /\ rec.exercises[named].actual = lastAction'.payload.actualCount
                /\ \A e \in ExerciseTypes \ {named} :
                      ~rec.exercises[e].completed /\ rec.exercises[e].actual = NoCount
                /\ ~rec.allCompleted ]_vars

\* on a date after the start date that had no record, on day 2 of a challenge with
\* other baselines than the default ones, completeExercise for planks has created
\* the record and completed planks in it
LazilyCreatedOnLaterDate ==
    /\ lastAction.type = "completeExercise"
    /\ lastAction.payload # NoPayload
    /\ lastAction.payload.exerciseType = "planks"
    /\ challenge.isActive
    /\ today > challenge.startDate
    /\ challenge.currentDay = 2
    /\ challenge.baselines # DefaultBaselines
    /\ HasProgress(challenge, today)
    /\ challenge.dailyProgress[today].day = 2
    /\ challenge.dailyProgress[today].exercises["planks"].completed
    /\ challenge.dailyProgress[today].exercises["planks"].actual = SampleActual
    /\ challenge.dailyProgress[today].exercises["planks"].target =
          challenge.baselines["planks"] + 5
    /\ ~challenge.dailyProgress[today].exercises["pushups"].completed

(***************************************************************************)
(* calculateAngle.                                                         *)
(***************************************************************************)
\* C30: calculateAngle(a, b, c) returns exactly 0, and not NaN, whenever a = b or
\* c = b.
AngleDegeneracy ==
    (angle # NoAngle /\ (anglePoints[1] = anglePoints[2] \/ anglePoints[3] = anglePoints[2]))
        => (angle = 0 /\ angle # NaN)

\* calculateAngle has returned 0 for a first point equal to the vertex and a third
\* point apart from it
DegenerateAngleComputed ==
    /\ angle = 0
    /\ anglePoints[1] = anglePoints[2]
    /\ anglePoints[3] # anglePoints[2]

\* C31: calculateAngle(a, b, c) = calculateAngle(c, b, a) for all points a, b, c,
\* and the result lies in [0, 180].
AngleSymmetry ==
    angle # NoAngle =>
        /\ angle = calculateAngle(anglePoints[3], anglePoints[2], anglePoints[1])
        /\ angle >= 0
        /\ angle <= 180

\* calculateAngle has returned 135 degrees for two vectors of different lengths
ObtuseAngleComputed ==
    /\ angle = 135
    /\ anglePoints[1] = [x |-> 0, y |-> 1]
    /\ anglePoints[2] = [x |-> 1, y |-> 1]
    /\ anglePoints[3] = [x |-> 2, y |-> 2]

(***************************************************************************)
(* ExerciseTrackingScreen.                                                 *)
(***************************************************************************)
\* C32: the tracking screen dispatches completeExercise only when currentCount >=
\* targetCount, at most once whatever Start, Pause, +1, -1 presses and plank timer
\* callbacks occur, with actualCount the count at that moment; once it has
\* dispatched, the count stays what it was then: no plank timer is running and the
\* manual buttons are not rendered.
CompletionDispatchedOnce ==
    /\ Len(dispatched) <= 1
    /\ dispatched # << >> =>
          /\ dispatched[1].exerciseType = screen.exerciseType
          /\ dispatched[1].actualCount >= screen.targetCount
          /\ dispatched[1].actualCount = screen.currentCount
          /\ screenTimers = {}
          /\ ~screen.isTracking
          /\ screen.isCompleted

\* a plank, paused once and started again, was completed by a late timer callback
\* that took the count past the target
PlankCompletedPastTarget ==
    /\ screen.exerciseType = "planks"
    /\ screen.intervals = 2
    /\ dispatched # << >>
    /\ dispatched[1].actualCount = screen.targetCount + 1

(***************************************************************************)
(* Sessions of the pose services.                                          *)
(***************************************************************************)
\* C33: in the frame-driven service session state accumulates across calls: after
\* processExercise(type, pose) has returned a state, getExerciseState(type) equals
\* that state (so the next processExercise starts from it, and a down frame followed
\* after the debounce by an up frame yields repCount 1).
ReturnedStateStored ==
    [][(service = "frames" /\ lastEvent'.op = "processExercise")
          => getExerciseState(exerciseStates', lastEvent'.exerciseType) = lastEvent'.result]_vars

\* C34: within one rep-counted session of the timer-driven service, a tick that
\* increases repCount comes at least 2 x debounce (1600 ms for pushups) after the
\* tick that increased it before, and the first one at least 2 x debounce after the
\* startExercise that created the session.
RepsTwoDebouncesApart ==
    [][\A x \in RepCounted :
          CountsRep(x) => nowMs - countedFrom[x] >= 2 * DebounceMs(x)]_vars

\* a session of pushups started at 0 ms has counted its second rep at 3200 ms, the
\* earliest time two reps can have been counted
SecondRepAtEarliest ==
    /\ HasSession("pushups")
    /\ exerciseStates["pushups"].repCount = 2
    /\ countedFrom["pushups"] = 4 * DebounceMs("pushups")
    /\ lastEvent.reported = 2

\* C35: after any sequence of startExercise and stopExercise calls on the
\* timer-driven service (starting a type twice or a second type before stopping the
\* first included), at most one detection interval timer is running, and none is
\* running once every started session has been stopped.
OneDetectionTimer ==
    service = "timer" =>
        /\ Cardinality(timers) <= 1
        /\ exerciseStates = << >> => timers = {}

\* C36: sessions of different exercise types are independent: with live sessions for
\* two types x and y, each with its interval timer running, stopExercise(x) leaves
\* y's session state unchanged and y's session keeps receiving detection ticks.
StopLeavesOtherSession ==
    [][\A x, y \in ExerciseTypes :
          ( /\ x # y
            /\ service = "timer"
            /\ lastEvent'.op = "stopExercise"
            /\ lastEvent'.exerciseType = x
            /\ HasSession(x)
            /\ HasSession(y)
            /\ \E tm \in timers : tm.exerciseType = x
            /\ \E tm \in timers : tm.exerciseType = y )
          => ( /\ y \in DOMAIN exerciseStates'
               /\ exerciseStates'[y] = exerciseStates[y]
               /\ \E tm \in timers' : tm.exerciseType = y )]_vars

(***************************************************************************)
(* The challenge engine: the current day and its record.                   *)
(***************************************************************************)
\* C37: in every reachable state of an active challenge, if a DailyProgress exists
\* for the current calendar date then its day equals currentDay and its four targets
\* equal the target formula applied to the current baselines and currentDay.
TodaysRecordMatchesCurrentDay ==
    (challenge.isActive /\ HasProgress(challenge, today)) =>
        /\ challenge.dailyProgress[today].day = challenge.currentDay
        /\ Targets(challenge.dailyProgress[today]) =
              Targets(createDailyProgress(today, challenge.currentDay, challenge.baselines))

\* C38: between a startChallenge and the next startChallenge or resetChallenge, with
\* a non-decreasing clock, currentDay never decreases under any interleaving of
\* advanceDay, syncCurrentDay, completeExercise and updateBaselines.
CurrentDayNeverDecreases ==
    [][( /\ challenge.startDate # NoDate
         /\ ~Dispatches("startChallenge")
         /\ ~Dispatches("resetChallenge") )
          => challenge'.currentDay >= challenge.currentDay]_vars

\* C39: in every reachable state totalDaysCompleted <= currentDay (hence <= 75), so
\* the success rate totalDaysCompleted / currentDay never exceeds 100%.
CompletedDaysAtMostCurrentDay ==
    /\ challenge.totalDaysCompleted <= challenge.currentDay
    /\ challenge.totalDaysCompleted <= ChallengeDays

====
